---- MODULE Spec2Model ----
(***************************************************************************)
(* Model of the nydus blob cache: the file cache entry (readiness map,     *)
(* region classification, dispatch, asynchronous persistence) and the      *)
(* fscache manager's entry directory.                                      *)
(*                                                                         *)
(* Units are scaled: a chunk holds 2 uncompressed bytes; a compressed      *)
(* chunk is stored in 1 byte.  Byte 0 is an unwritten cache-file byte (a   *)
(* hole of the sparse file or a cleared user buffer).                      *)
(***************************************************************************)
EXTENDS Integers, Sequences, FiniteSets, TLC

\* ------------------------------------------------------------------ bounds
\* Read calls issued on the entry in one behaviour.
MaxReads == 2
\* get_blob_cache calls issued on the manager in one behaviour.
MaxGets == 3
\* gc, destroy and check_stat calls issued on the manager in one behaviour.
MaxGcs == 2
MaxDestroys == 2
MaxChecks == 3
\* Largest start address of a range pushed on a region list on its own.
MaxAddr == 4
MaxBios == 3
MaxAppends == 3
MaxCopy == 3
MaxSteps == 3

\* ------------------------------------------------------------ small helpers
Min(a, b) == IF a < b THEN a ELSE b
Max(a, b) == IF a > b THEN a ELSE b

RECURSIVE Flatten(_)
Flatten(ss) == IF ss = <<>> THEN <<>> ELSE Head(ss) \o Flatten(Tail(ss))

RECURSIVE SumLen(_)
SumLen(ss) == IF ss = <<>> THEN 0 ELSE Len(Head(ss)) + SumLen(Tail(ss))

\* s[from+1 .. from+n], clipped to s (0-based offset, like a Rust slice).
Slice(s, from, n) == SubSeq(s, from + 1, Min(Len(s), from + n))

\* ------------------------------------------------- the blob and its chunks
Threads == {1, 2}
Chunks == {0, 1}

\* The blob has two more chunks, which the model merges and classifies but
\* never reads.
BlobChunks == Chunks \cup {2, 3}

\* Chunks 0 and 2 are compressed in the blob, chunks 1 and 3 are stored raw.
\* Chunks 0, 1 and 2 follow each other in the blob; one byte lies between
\* the end of chunk 2 and chunk 3.
is_compressed(c) == c \in {0, 2}
uncompress_size(c) == 2
compress_size(c) == IF is_compressed(c) THEN 1 ELSE 2
uncompress_offset(c) == 2 * c
compress_offset(c) == IF c = 0 THEN 0 ELSE IF c = 1 THEN 1 ELSE IF c = 2 THEN 3 ELSE 5

\* Canonical uncompressed content of a chunk.
ChunkData(c) == <<10 * (c + 1) + 1, 10 * (c + 1) + 2>>

\* The codec: a 2-byte chunk compresses into one frame byte >= 100;
\* anything else (a hole, raw bytes, a wrong length) is not a frame.
Compress(s) == <<100 * s[1] + s[2]>>
IsFrame(raw) == Len(raw) = 1 /\ raw[1] >= 100
Decompress(raw) == <<raw[1] \div 100, raw[1] % 100>>

\* The digest of a buffer (collision free on the model's buffers).
Digest(s) == IF Len(s) = 2 THEN 1000 * s[1] + s[2] ELSE 0 - 1
chunk_id(c) == Digest(ChunkData(c))
digest_check(data, digest) == digest = Digest(data)

\* Bytes of a chunk as stored in the blob on the backend.
RawChunk(c) == IF is_compressed(c) THEN Compress(ChunkData(c)) ELSE ChunkData(c)
BlobBytes == RawChunk(0) \o RawChunk(1)

\* --------------------------------------------------------- readiness map
Absent == "Absent"
InFlight == "InFlight"
Ready == "Ready"

\* is_ready(): a Ready chunk answers true; an Absent chunk is claimed by the
\* caller (it becomes InFlight) and answers false; an InFlight chunk answers
\* false (after the bounded wait expired, or at once without wait).
is_ready_result(cm, c) == cm[c] = Ready
\* Variant: is_ready() that does not claim an Absent chunk.
is_ready_map_noclaim(cm, c) == cm
is_ready_map(cm, c) == IF cm[c] = Absent THEN [cm EXCEPT ![c] = InFlight] ELSE cm
set_ready(cm, c) == [cm EXCEPT ![c] = Ready]
notify_ready(cm, c) == IF cm[c] = InFlight THEN [cm EXCEPT ![c] = Absent] ELSE cm

\* ------------------------------------------------------------ cache file
\* pwrite of the first n bytes of buf at offset; a write past the end
\* extends the file, the gap reads as zeros.
Pwrite(f, offset, buf, n) ==
    LET newlen == IF n = 0 THEN Len(f) ELSE Max(Len(f), offset + n)
    IN [i \in 1..newlen |->
          IF i > offset /\ i <= offset + n THEN buf[i - offset]
          ELSE IF i <= Len(f) THEN f[i] ELSE 0]

\* pread of up to n bytes at offset: short at end of file.
Pread(f, offset, n) == Slice(f, offset, n)

\* ---------------------------------------------------- scatter/gather buffers
\* A destination is a sequence of slices, each a sequence of bytes.  A cursor
\* is [index, offset], both counted from 0 as in the code.
NewCursor == [index |-> 0, offset |-> 0]

\* Variant: a cursor that is never advanced.
move_cursor_stays(bufs, cur, size) == cur

RECURSIVE move_cursor(_, _, _)
move_cursor(bufs, cur, size) ==
    IF ~(size > 0 /\ cur.index < Len(bufs)) THEN cur
    ELSE LET this_left == Len(bufs[cur.index + 1]) - cur.offset
         IN IF this_left = size THEN [index |-> cur.index + 1, offset |-> 0]
            ELSE IF this_left > size THEN [cur EXCEPT !.offset = cur.offset + size]
            ELSE move_cursor(bufs, [index |-> cur.index + 1, offset |-> 0],
                             size - this_left)

\* Variant: a consume that stops at the end of the current slice.
consume_one_slice(bufs, cur, size) ==
    IF ~(size > 0 /\ cur.index < Len(bufs)) THEN [vecs |-> <<>>, cur |-> cur]
    ELSE LET this_left == Len(bufs[cur.index + 1]) - cur.offset
         IN IF this_left > size
            THEN [vecs |-> <<[idx |-> cur.index, off |-> cur.offset, n |-> size]>>,
                  cur |-> [cur EXCEPT !.offset = cur.offset + size]]
            ELSE [vecs |-> <<[idx |-> cur.index, off |-> cur.offset, n |-> this_left]>>,
                  cur |-> [index |-> cur.index + 1, offset |-> 0]]

\* consume(): the iovecs [idx, off, n] borrowed from the slices, and the
\* cursor after them.
RECURSIVE consume(_, _, _)
consume(bufs, cur, size) ==
    IF ~(size > 0 /\ cur.index < Len(bufs)) THEN [vecs |-> <<>>, cur |-> cur]
    ELSE LET this_left == Len(bufs[cur.index + 1]) - cur.offset
         IN IF this_left > size
            THEN [vecs |-> <<[idx |-> cur.index, off |-> cur.offset, n |-> size]>>,
                  cur |-> [cur EXCEPT !.offset = cur.offset + size]]
            ELSE IF this_left = size
            THEN [vecs |-> <<[idx |-> cur.index, off |-> cur.offset, n |-> size]>>,
                  cur |-> [index |-> cur.index + 1, offset |-> 0]]
            ELSE LET rest == consume(bufs, [index |-> cur.index + 1, offset |-> 0],
                                     size - this_left)
                 IN [vecs |-> <<[idx |-> cur.index, off |-> cur.offset,
                                 n |-> this_left]>> \o rest.vecs,
                     cur |-> rest.cur]

\* Store data into slice s at offset off (as many bytes as data holds).
WriteAt(s, off, data) ==
    [i \in 1..Len(s) |->
        IF i > off /\ i <= off + Len(data) THEN data[i - off] ELSE s[i]]

\* readv(): preadv fills the iovecs in order with the file's bytes from offset,
\* stopping at the end of the file; returns the bufs and the byte count.
RECURSIVE FillVecs(_, _, _)
FillVecs(bufs, vecs, data) ==
    IF vecs = <<>> \/ data = <<>> THEN bufs
    ELSE LET v == Head(vecs)
             k == Min(v.n, Len(data))
         IN FillVecs([bufs EXCEPT ![v.idx + 1] = WriteAt(@, v.off, SubSeq(data, 1, k))],
                     Tail(vecs), SubSeq(data, k + 1, Len(data)))

RECURSIVE VecsLen(_)
VecsLen(vecs) == IF vecs = <<>> THEN 0 ELSE Head(vecs).n + VecsLen(Tail(vecs))

readv(f, bufs, vecs, offset) ==
    LET data == Pread(f, offset, VecsLen(vecs))
    IN [n |-> Len(data), bufs |-> FillVecs(bufs, vecs, data)]

\* copyv(): copy up to length bytes of the source buffers, starting at offset
\* in the first one, to the destination at (dst_index, dst_offset).
RECURSIVE CopyvInner(_, _, _, _, _, _, _, _, _)
RECURSIVE CopyvSrc(_, _, _, _, _, _, _, _)
CopyvSrc(src, k, src_offset, copied, length, dst, di, doff) ==
    IF k > Len(src)
    THEN [err |-> FALSE, n |-> copied, dst |-> dst, index |-> di, offset |-> doff]
    ELSE CopyvInner(src, k, src_offset,
                    Min(Len(src[k]) - src_offset, length - copied),
                    copied, length, dst, di, doff)
CopyvInner(src, k, src_offset, buffer_len, copied, length, dst, di, doff) ==
    IF di >= Len(dst)
    THEN [err |-> TRUE, n |-> copied, dst |-> dst, index |-> di, offset |-> doff]
    ELSE LET written == Min(buffer_len, Len(dst[di + 1]) - doff)
             buffer == Slice(src[k], src_offset, written)
             dst2 == [dst EXCEPT ![di + 1] = WriteAt(@, doff, buffer)]
             full == Len(dst[di + 1]) - doff = written
             di2 == IF full THEN di + 1 ELSE di
             doff2 == IF full THEN 0 ELSE doff + written
         IN IF written = buffer_len
            THEN CopyvSrc(src, k + 1, 0, copied + written, length, dst2, di2, doff2)
            ELSE CopyvInner(src, k, src_offset + written, buffer_len - written,
                            copied + written, length, dst2, di2, doff2)

\* Variant: an offset one byte past the first source buffer is let through.
copyv_lax(src, dst, offset, length, dst_index, dst_offset) ==
    IF src = <<>> \/ length = 0
    THEN [err |-> FALSE, n |-> 0, dst |-> dst, index |-> dst_index, offset |-> dst_offset]
    ELSE IF offset > Len(src[1]) + 1 \/ dst_index >= Len(dst)
            \/ dst_offset > Len(dst[dst_index + 1])
    THEN [err |-> TRUE, n |-> 0, dst |-> dst, index |-> dst_index, offset |-> dst_offset]
    ELSE CopyvSrc(src, 1, offset, 0, length, dst, dst_index, dst_offset)

copyv(src, dst, offset, length, dst_index, dst_offset) ==
    IF src = <<>> \/ length = 0
    THEN [err |-> FALSE, n |-> 0, dst |-> dst, index |-> dst_index, offset |-> dst_offset]
    ELSE IF offset > Len(src[1]) \/ dst_index >= Len(dst)
            \/ dst_offset > Len(dst[dst_index + 1])
    THEN [err |-> TRUE, n |-> 0, dst |-> dst, index |-> dst_index, offset |-> dst_offset]
    ELSE CopyvSrc(src, 1, offset, 0, length, dst, dst_index, dst_offset)

\* ------------------------------------------------------ IO descriptors
\* A BlobIoDesc: a chunk, whether the user asked for it, and the range
\* {offset, size} of the chunk the user wants.
UserIo(c, off, n) == [chunk |-> c, user_io |-> TRUE, offset |-> off, size |-> n]
InternalIo(c) == [chunk |-> c, user_io |-> FALSE, offset |-> 0,
                  size |-> uncompress_size(c)]

\* The tag of a merged chunk: User(segment) or Internal.
TagOf(bio) == [user |-> bio.user_io, offset |-> bio.offset, len |-> bio.size]

\* The largest merged backend request (RAFS_DEFAULT_CHUNK_SIZE * 2; a chunk
\* here holds 2 bytes).
MergingSize == 4

ChunkIoMerged_new(bio) ==
    [chunks |-> <<bio.chunk>>, tags |-> <<TagOf(bio)>>,
     blob_offset |-> compress_offset(bio.chunk),
     blob_size |-> compress_size(bio.chunk)]

\* Variant: a merge that leaves blob_size at the first chunk's size.
ChunkIoMerged_merge_nosize(m, bio) ==
    [m EXCEPT !.chunks = Append(@, bio.chunk), !.tags = Append(@, TagOf(bio))]

ChunkIoMerged_merge(m, bio) ==
    [m EXCEPT !.chunks = Append(@, bio.chunk), !.tags = Append(@, TagOf(bio)),
              !.blob_size = @ + compress_size(bio.chunk)]

\* Step-1 merging: maximal runs of chunks contiguous in the compressed
\* address space whose span stays within merging_size.
RECURSIVE MergeFrom(_, _, _, _)
MergeFrom(bios, i, cur, merging_size) ==
    IF i > Len(bios) THEN <<cur>>
    ELSE IF cur.blob_offset + cur.blob_size = compress_offset(bios[i].chunk)
            /\ cur.blob_size + compress_size(bios[i].chunk) <= merging_size
    THEN MergeFrom(bios, i + 1, ChunkIoMerged_merge(cur, bios[i]), merging_size)
    ELSE <<cur>> \o MergeFrom(bios, i + 1, ChunkIoMerged_new(bios[i]), merging_size)

merge_requests_for_user(bios, merging_size) ==
    IF bios = <<>> THEN <<>>
    ELSE MergeFrom(bios, 2, ChunkIoMerged_new(bios[1]), merging_size)

\* ------------------------------------------------------------- regions
CacheFast == "CacheFast"
CacheSlow == "CacheSlow"
Backend == "Backend"

seg_is_empty(seg) == seg.offset = 0 /\ seg.len = 0
seg_append(seg, offset, len) == [seg EXCEPT !.len = @ + len]

Region_new(region_type) ==
    [type |-> region_type, status |-> "Init", count |-> 0, chunks |-> <<>>,
     tags |-> <<>>, blob_address |-> 0, blob_len |-> 0,
     seg |-> [offset |-> 0, len |-> 0]]

\* Variant: an append that counts the chunk before it looks at the address.
Region_append_counts(r, start, len, tag, has_chunk, chunk) ==
    IF r.status # "Init" /\ r.blob_address + r.blob_len # start
    THEN [ok |-> FALSE, r |-> [r EXCEPT !.count = @ + 1]]
    ELSE LET r1 == IF r.status = "Init"
                   THEN [r EXCEPT !.status = "Open", !.blob_address = start,
                                  !.blob_len = len, !.count = 1]
                   ELSE [r EXCEPT !.blob_len = @ + len, !.count = @ + 1]
             r2 == IF tag.user
                   THEN [r1 EXCEPT !.seg =
                            IF seg_is_empty(r1.seg)
                            THEN [offset |-> tag.offset, len |-> tag.len]
                            ELSE seg_append(r1.seg, tag.offset, tag.len)]
                   ELSE r1
             r3 == IF has_chunk
                   THEN [r2 EXCEPT !.chunks = Append(@, chunk),
                                   !.tags = Append(@, tag.user)]
                   ELSE r2
         IN [ok |-> TRUE, r |-> r3]

\* Variant: an append that keeps the tags of the user chunks only.
Region_append_usertags(r, start, len, tag, has_chunk, chunk) ==
    IF r.status # "Init" /\ r.blob_address + r.blob_len # start
    THEN [ok |-> FALSE, r |-> r]
    ELSE LET r1 == IF r.status = "Init"
                   THEN [r EXCEPT !.status = "Open", !.blob_address = start,
                                  !.blob_len = len, !.count = 1]
                   ELSE [r EXCEPT !.blob_len = @ + len, !.count = @ + 1]
             r2 == IF tag.user
                   THEN [r1 EXCEPT !.seg =
                            IF seg_is_empty(r1.seg)
                            THEN [offset |-> tag.offset, len |-> tag.len]
                            ELSE seg_append(r1.seg, tag.offset, tag.len)]
                   ELSE r1
             r3 == IF has_chunk
                   THEN [r2 EXCEPT !.chunks = Append(@, chunk),
                                   !.tags = IF tag.user THEN Append(@, TRUE) ELSE @]
                   ELSE r2
         IN [ok |-> TRUE, r |-> r3]

\* Region::append: [ok, r]; not ok is NotContinuous and leaves r alone.
Region_append(r, start, len, tag, has_chunk, chunk) ==
    IF r.status # "Init" /\ r.blob_address + r.blob_len # start
    THEN [ok |-> FALSE, r |-> r]
    ELSE LET r1 == IF r.status = "Init"
                   THEN [r EXCEPT !.status = "Open", !.blob_address = start,
                                  !.blob_len = len, !.count = 1]
                   ELSE [r EXCEPT !.blob_len = @ + len, !.count = @ + 1]
             r2 == IF tag.user
                   THEN [r1 EXCEPT !.seg =
                            IF seg_is_empty(r1.seg)
                            THEN [offset |-> tag.offset, len |-> tag.len]
                            ELSE seg_append(r1.seg, tag.offset, tag.len)]
                   ELSE r1
             r3 == IF has_chunk
                   THEN [r2 EXCEPT !.chunks = Append(@, chunk),
                                   !.tags = Append(@, tag.user)]
                   ELSE r2
         IN [ok |-> TRUE, r |-> r3]

\* Variant: every region counts as holding user IO.
has_user_io_any(r) == TRUE

has_user_io(r) == ~seg_is_empty(r.seg)

joinable(regions, region_type) == regions[Len(regions)].type = region_type

\* FileIoMergeState::push: [ok, regions].  A region of another kind is
\* opened when the kinds differ; the append's error is the push's error.
FileIoMergeState_push(regions, region_type, start, len, tag, has_chunk, chunk) ==
    LET rs == IF Len(regions) = 0 \/ ~joinable(regions, region_type)
              THEN Append(regions, Region_new(region_type))
              ELSE regions
        idx == Len(rs)
        a == Region_append(rs[idx], start, len, tag, has_chunk, chunk)
    IN [ok |-> a.ok, regions |-> [rs EXCEPT ![idx] = a.r]]

\* ------------------------------------------------------------ the state
VARIABLES
    cfg,        \* the entry's flags, fixed at construction
    chunk_map,  \* readiness of every chunk
    file,       \* bytes of the cache file
    tasks,      \* spawned persistence tasks not yet finished
    rd,         \* per thread: the read call it is in
    nreads,     \* read calls started so far
    timedout,   \* chunks on which a readiness wait has timed out
    errlog,     \* chunks with a logged persistence failure
    hist,       \* what persisted through the Backend path, and the reopening
    probe,      \* the last result of a function applied on its own
    blobs,      \* manager: blob id -> entry
    mg,         \* manager: per caller, its get_blob_cache call
    nentries,   \* manager: entries constructed so far
    ngets,      \* manager: get_blob_cache calls started so far
    removed,    \* manager: blob ids whose entry gc has removed
    cache_compressed,   \* manager: the cache_compressed option it was created with
    closed,             \* manager: the closed flag
    blobs_check_count,  \* manager: the counter of check_stat (u8)
    data_all_ready,     \* manager: metrics.data_all_ready
    effects,    \* manager: calls made so far of worker_mgr.stop, backend.shutdown
                \* and metrics.release, and declarations of check_stat
    allready,   \* manager: entries whose is_all_data_ready() answers true
    gcp,        \* manager: the gc call in progress
    dsp,        \* manager: per destroyer, its position in destroy
    ncalls,     \* manager: gc, destroy and check_stat calls started so far
    streak,     \* manager: consecutive all-ready observations of check_stat
    overlap,    \* manager: two destroy calls have overlapped
    chk         \* manager: per checker, its position in check_stat

entryVars == <<cfg, chunk_map, file, tasks, rd, nreads, timedout, errlog, hist, probe>>
getVars == <<blobs, mg, nentries, ngets, removed>>
mgrRest ==
    <<cache_compressed, closed, blobs_check_count, data_all_ready, effects,
      allready, gcp, dsp, ncalls, streak, overlap, chk>>
mgrVars == <<getVars, mgrRest>>
vars == <<entryVars, mgrVars>>

\* Outcomes of the environment's IO.
BackendOutcomes == {"ok", "short", "err"}
WriteOutcomes == {"full", "short", "err"}

\* BlobReader::read of len bytes at offset: [ok, data].
reader_read(offset, len, bo) ==
    IF bo = "err" THEN [ok |-> FALSE, data |-> <<>>]
    ELSE IF bo = "short" THEN [ok |-> TRUE, data |-> Slice(BlobBytes, offset, len - 1)]
    ELSE [ok |-> TRUE, data |-> Slice(BlobBytes, offset, len)]

\* Bytes a pwrite of buf stores under a write outcome.
WrittenBytes(buf, wo) ==
    IF wo = "full" THEN Len(buf) ELSE IF wo = "short" THEN Len(buf) - 1 ELSE 0

\* process_raw_chunk: decompress or take the raw bytes, check the size, and
\* the digest when validation is on: [ok, data].
process_raw_chunk(c, raw, need_decompress) ==
    IF need_decompress /\ ~IsFrame(raw) THEN [ok |-> FALSE, data |-> <<>>]
    ELSE LET data == IF need_decompress THEN Decompress(raw) ELSE raw
         IN IF Len(data) # uncompress_size(c) THEN [ok |-> FALSE, data |-> <<>>]
            ELSE IF cfg.need_validate /\ ~digest_check(data, chunk_id(c))
            THEN [ok |-> FALSE, data |-> <<>>]
            ELSE [ok |-> TRUE, data |-> data]

\* read_file_cache: the chunk from the cache file: [ok, data].
read_file_cache(f, c) ==
    LET offset == IF cfg.is_compressed THEN compress_offset(c) ELSE uncompress_offset(c)
        want == IF cfg.is_compressed THEN compress_size(c) ELSE uncompress_size(c)
        raw == Pread(f, offset, want)
    IN IF Len(raw) = 0 \/ Len(raw) # want THEN [ok |-> FALSE, data |-> <<>>]
       ELSE process_raw_chunk(c, raw, cfg.is_compressed)

\* Variant: persist_chunk without the comparison of the written length.
persist_chunk_ok_any(buf, wo) == wo # "err"

\* persist_chunk's verdict on a pwrite that returned n (or failed).
persist_chunk_ok(buf, wo) == wo # "err" /\ WrittenBytes(buf, wo) = Len(buf)

\* delay_persist: spawn the task that writes buffer at the chunk's offset.
delay_persist(ts, rid, c, buffer) ==
    ts \cup {[rid |-> rid, chunk |-> c, buf |-> buffer, wo |-> "none",
              offset |-> IF cfg.is_compressed THEN compress_offset(c)
                         ELSE uncompress_offset(c)]}

\* Variant: the chunk is returned as the backend sent it.
read_raw_chunk_unprocessed(c, bo) ==
    LET got == reader_read(compress_offset(c), compress_size(c), bo)
    IN [ok |-> got.ok /\ Len(got.data) = compress_size(c), data |-> got.data,
        raw |-> got.data]

\* read_raw_chunk: one whole chunk from the backend: [ok, data, raw].
read_raw_chunk(c, bo) ==
    LET got == reader_read(compress_offset(c), compress_size(c), bo)
    IN IF ~got.ok \/ Len(got.data) # compress_size(c)
       THEN [ok |-> FALSE, data |-> <<>>, raw |-> <<>>]
       ELSE LET p == process_raw_chunk(c, got.data, is_compressed(c))
            IN [ok |-> p.ok, data |-> p.data, raw |-> got.data]

\* Variant: every chunk is cut from the start of the range.
offset_merged_zero(offset, blob_offset) == 0

\* The place of a chunk inside the range read_chunks fetched.
offset_merged(offset, blob_offset) == offset - blob_offset

\* read_chunks: one backend read for the range, then every chunk cut out of
\* it and processed: [ok, chunks].
RECURSIVE ProcessChunks(_, _, _, _)
ProcessChunks(c_buf, blob_offset, cki_set, last) ==
    IF cki_set = <<>> THEN [ok |-> TRUE, chunks |-> <<>>]
    ELSE LET cki == Head(cki_set)
             offset == compress_offset(cki)
             size == compress_size(cki)
         IN IF offset # last THEN [ok |-> FALSE, chunks |-> <<>>]
            ELSE LET p == process_raw_chunk(cki, Slice(c_buf, offset_merged(offset, blob_offset), size),
                                            is_compressed(cki))
                     rest == ProcessChunks(c_buf, blob_offset, Tail(cki_set), offset + size)
                 IN IF p.ok /\ rest.ok
                    THEN [ok |-> TRUE, chunks |-> <<p.data>> \o rest.chunks]
                    ELSE [ok |-> FALSE, chunks |-> <<>>]

read_chunks(blob_offset, blob_size, cki_set, bo) ==
    LET got == reader_read(blob_offset, blob_size, bo)
    IN IF ~got.ok \/ Len(got.data) # blob_size THEN [ok |-> FALSE, chunks |-> <<>>]
       ELSE ProcessChunks(got.data, blob_offset, cki_set, blob_offset)

\* ------------------------------------------------------------ dispatch
\* The dispatch operators work on w = [cm, file, tasks, log, r]: the readiness
\* map, the cache file, the spawned tasks, the failure log and the calling
\* thread's read record r.  They return [err, n, w]: err is "" on success.

dispatch_cache_fast(w, region) ==
    LET offset == region.blob_address + region.seg.offset
        size == region.seg.len
        cv == consume(w.r.bufs, w.r.cursor, size)
        rv == readv(w.file, w.r.bufs, cv.vecs, offset)
    IN [err |-> "", n |-> rv.n,
        w |-> [w EXCEPT !.r.bufs = rv.bufs, !.r.cursor = cv.cur]]

\* The copy of one chunk buffer's range to the user cursor that ends
\* read_single_chunk.
CopyOut(w, buffer, user_offset, size) ==
    LET cp == copyv(<<buffer>>, w.r.bufs, user_offset, size,
                    w.r.cursor.index, w.r.cursor.offset)
    IN IF cp.err
       THEN [err |-> "copy", n |-> 0, w |-> [w EXCEPT !.r.bufs = cp.dst]]
       ELSE [err |-> "", n |-> cp.n,
             w |-> [w EXCEPT !.r.bufs = cp.dst,
                             !.r.cursor = move_cursor(cp.dst, w.r.cursor, cp.n)]]

\* Variant: the cache file is tried for a Ready chunk only.
try_cache_ready(is_ready) == is_ready

\* read_single_chunk's decision to try the cache file first.
try_cache(is_ready) == cfg.is_stargz \/ ~cfg.is_direct_chunkmap \/ is_ready

read_single_chunk(w, chunk, user_offset, size, bo, wo) ==
    LET is_ready == is_ready_result(w.cm, chunk)
        w0 == [w EXCEPT !.cm = is_ready_map(w.cm, chunk)]
        cached == read_file_cache(w.file, chunk)
    IN IF try_cache(is_ready) /\ cached.ok
       THEN CopyOut([w0 EXCEPT !.cm = set_ready(w0.cm, chunk)],
                    cached.data, user_offset, size)
       ELSE LET got == read_raw_chunk(chunk, bo)
                w1 == [w0 EXCEPT !.r.breads =
                          Append(@, <<compress_offset(chunk), compress_size(chunk)>>)]
            IN IF ~got.ok THEN [err |-> "eio", n |-> 0, w |-> w1]
               ELSE IF ~cfg.is_compressed
               THEN CopyOut([w1 EXCEPT !.tasks =
                                delay_persist(w1.tasks, w.r.rid, chunk, got.data)],
                            got.data, user_offset, size)
               ELSE \* persist_compressed: the raw chunk, written by the caller
                    LET f2 == Pwrite(w1.file, compress_offset(chunk), got.raw,
                                     WrittenBytes(got.raw, wo))
                        w2 == IF persist_chunk_ok(got.raw, wo)
                              THEN [w1 EXCEPT !.file = f2,
                                              !.cm = set_ready(w1.cm, chunk)]
                              ELSE [w1 EXCEPT !.file = f2,
                                              !.cm = notify_ready(w1.cm, chunk),
                                              !.log = @ \cup {chunk}]
                    IN CopyOut(w2, got.data, user_offset, size)

RECURSIVE SlowChunks(_, _, _, _, _, _)
SlowChunks(w, region, i, total_read, bo, wo) ==
    IF i > Len(region.chunks) THEN [err |-> "", n |-> total_read, w |-> w]
    ELSE LET c == region.chunks[i]
             user_offset == IF i = 1 THEN region.seg.offset ELSE 0
             size == Min(uncompress_size(c) - user_offset, region.seg.len - total_read)
             one == read_single_chunk(w, c, user_offset, size, bo, wo)
         IN IF one.err # "" THEN one
            ELSE SlowChunks(one.w, region, i + 1, total_read + one.n, bo, wo)

dispatch_cache_slow(w, region, bo, wo) == SlowChunks(w, region, 1, 0, bo, wo)

\* Variant: the chunks of a region without user IO are released whatever
\* their state.
NotifyAll_any(cm, cs) ==
    [c \in DOMAIN cm |->
        IF \E i \in 1..Len(cs) : cs[i] = c THEN Absent ELSE cm[c]]

RECURSIVE NotifyAll(_, _)
NotifyAll(cm, cs) ==
    IF cs = <<>> THEN cm ELSE NotifyAll(notify_ready(cm, Head(cs)), Tail(cs))

RECURSIVE PersistAll(_, _, _, _)
PersistAll(ts, rid, cs, bufs) ==
    IF cs = <<>> THEN ts
    ELSE PersistAll(delay_persist(ts, rid, Head(cs), Head(bufs)), rid, Tail(cs), Tail(bufs))

\* Variant: every chunk's buffer is handed to the copy.
BufferHolder_all(tags, bufs) == bufs

\* The buffers of the user-tagged chunks, in order.
RECURSIVE BufferHolder(_, _)
BufferHolder(tags, bufs) ==
    IF tags = <<>> THEN <<>>
    ELSE (IF Head(tags) THEN <<Head(bufs)>> ELSE <<>>)
         \o BufferHolder(Tail(tags), Tail(bufs))

dispatch_backend(w, region, bo) ==
    IF ~has_user_io(region)
    THEN [err |-> "", n |-> 0, w |-> [w EXCEPT !.cm = NotifyAll(w.cm, region.chunks)]]
    ELSE IF Len(region.chunks) = 0 THEN [err |-> "", n |-> 0, w |-> w]
    ELSE LET got == read_chunks(region.blob_address, region.blob_len, region.chunks, bo)
             w1 == [w EXCEPT !.r.breads =
                       Append(@, <<region.blob_address, region.blob_len>>)]
         IN IF ~got.ok THEN [err |-> "eio", n |-> 0, w |-> w1]
            ELSE LET w2 == [w1 EXCEPT !.tasks =
                               PersistAll(w1.tasks, w.r.rid, region.chunks, got.chunks)]
                     cp == copyv(BufferHolder(region.tags, got.chunks), w2.r.bufs,
                                 region.seg.offset, region.seg.len,
                                 w2.r.cursor.index, w2.r.cursor.offset)
                 IN IF cp.err
                    THEN [err |-> "copy", n |-> 0, w |-> [w2 EXCEPT !.r.bufs = cp.dst]]
                    ELSE [err |-> "", n |-> cp.n,
                          w |-> [w2 EXCEPT !.r.bufs = cp.dst,
                                    !.r.cursor = move_cursor(cp.dst, w2.r.cursor, cp.n)]]

dispatch_region(w, region, bo, wo) ==
    IF region.type = CacheFast THEN dispatch_cache_fast(w, region)
    ELSE IF region.type = CacheSlow THEN dispatch_cache_slow(w, region, bo, wo)
    ELSE dispatch_backend(w, region, bo)

\* ------------------------------------------------------------ read_iter
IdleRd ==
    [pc |-> "idle", rid |-> 0, bios |-> <<>>, reqs |-> <<>>, ri |-> 0, ci |-> 0,
     regions |-> <<>>, gi |-> 0, bufs |-> <<>>, cursor |-> NewCursor,
     total |-> 0, breads |-> <<>>, res |-> "none", failed |-> "none"]

\* The call returns: only what the caller sees is kept.
Finish(r, res) ==
    [r EXCEPT !.pc = "done", !.res = res, !.reqs = <<>>, !.ri = 0, !.ci = 0,
              !.regions = <<>>, !.gi = 0]

\* state.reset() and the next merged request, or the end of the call.
NextRequest(r) ==
    IF r.ri < Len(r.reqs)
    THEN [r EXCEPT !.pc = "classify", !.ri = @ + 1, !.ci = 1, !.regions = <<>>,
                   !.gi = 0]
    ELSE Finish(r, "ok")

\* Variant: a classification that does not look at need_validate.
RegionTypeOf_novalidate(is_ready) ==
    IF is_ready /\ ~cfg.is_compressed THEN CacheFast
    ELSE IF cfg.is_stargz \/ ~cfg.is_direct_chunkmap \/ is_ready THEN CacheSlow
    ELSE Backend

\* The kind read_iter gives a chunk whose is_ready() answered is_ready.
RegionTypeOf(is_ready) ==
    IF is_ready /\ ~cfg.is_compressed /\ ~cfg.need_validate THEN CacheFast
    ELSE IF cfg.is_stargz \/ ~cfg.is_direct_chunkmap \/ is_ready THEN CacheSlow
    ELSE Backend

\* Variant: non-user chunks of the cache kinds are pushed like user chunks.
is_dropped_never(kind, user) == FALSE

\* read_iter pushes a chunk of a cache kind only for user IO.
is_dropped(kind, user) == kind # Backend /\ ~user

\* Variant: every Backend push starts at address 0.
backend_start_zero(chunk) == 0

\* The address read_iter pushes a Backend chunk at.
backend_start(chunk) == compress_offset(chunk)

\* One round of read_iter's classification loop, for the chunk at (ri, ci),
\* after is_ready() answered is_ready and left the map as cm: [ok, r, cm,
\* notified]; notified tells whether notify_ready was called.
ClassifyChunk(r, cm, is_ready) ==
    LET req == r.reqs[r.ri]
        chunk == req.chunks[r.ci]
        tag == req.tags[r.ci]
        kind == RegionTypeOf(is_ready)
        pushed ==
            IF kind = CacheFast
            THEN FileIoMergeState_push(r.regions, CacheFast, uncompress_offset(chunk),
                                       uncompress_size(chunk), tag, FALSE, chunk)
            ELSE IF kind = CacheSlow
            THEN FileIoMergeState_push(r.regions, CacheSlow, uncompress_offset(chunk),
                                       uncompress_size(chunk), tag, TRUE, chunk)
            ELSE FileIoMergeState_push(r.regions, Backend, backend_start(chunk),
                                       compress_size(chunk), tag, TRUE, chunk)
    IN IF is_dropped(kind, tag.user)
       THEN [ok |-> TRUE, r |-> r,
             cm |-> IF kind = CacheSlow THEN notify_ready(cm, chunk) ELSE cm,
             notified |-> kind = CacheSlow]
       ELSE [ok |-> pushed.ok, r |-> [r EXCEPT !.regions = pushed.regions], cm |-> cm,
             notified |-> FALSE]

\* After a chunk is classified: the next chunk, or the dispatch of the
\* request's regions.
AfterClassify(r) ==
    IF r.ci < Len(r.reqs[r.ri].chunks) THEN [r EXCEPT !.ci = @ + 1]
    ELSE IF r.regions = <<>> THEN NextRequest(r)
    ELSE [r EXCEPT !.pc = "dispatch", !.gi = 1]

\* After a region is dispatched with n bytes.
AfterDispatch(r, n) ==
    LET r1 == [r EXCEPT !.total = @ + n]
    IN IF r.gi < Len(r.regions) THEN [r1 EXCEPT !.gi = @ + 1] ELSE NextRequest(r1)

\* ----------------------------------------------------------- the inputs
Configs ==
    [is_compressed : BOOLEAN, need_validate : BOOLEAN,
     is_direct_chunkmap : BOOLEAN, is_stargz : {FALSE}]

\* Read requests: user IO over one chunk or over two consecutive chunks
\* (partial in the first and the last chunk), and a user chunk followed or
\* preceded by a read-amplification chunk.
BioChoices ==
    { <<UserIo(0, 0, 2)>>,
      <<UserIo(1, 1, 1)>>,
      <<UserIo(0, 1, 1), UserIo(1, 0, 1)>>,
      <<UserIo(0, 0, 2), InternalIo(1)>>,
      <<InternalIo(0), UserIo(1, 0, 2)>> }

RECURSIVE UserLen(_)
UserLen(bios) ==
    IF bios = <<>> THEN 0
    ELSE (IF Head(bios).user_io THEN Head(bios).size ELSE 0) + UserLen(Tail(bios))

\* Destination buffers of exactly the requested size, cleared: one slice per
\* byte for a request of several user chunks, one slice otherwise.
BufShapes(bios) ==
    { IF Len(bios) > 1 /\ bios[2].user_io
      THEN [i \in 1..UserLen(bios) |-> <<0>>]
      ELSE <<[i \in 1..UserLen(bios) |-> 0]>> }

\* ------------------------------------------------------------- actions
\* The record of the chunks fetched by Backend regions and of those among
\* them whose persistence task succeeded, kept until the entry is reopened.
NoHist == [opened |-> FALSE, fetched |-> {}, persisted |-> {}]

Fetched(h, ts) ==
    IF h.opened THEN h
    ELSE [h EXCEPT !.fetched = @ \cup {<<k.rid, k.chunk>> : k \in ts}]

Persisted(h, k, ok) ==
    IF h.opened \/ <<k.rid, k.chunk>> \notin h.fetched THEN h
    ELSE [h EXCEPT !.fetched = @ \ {<<k.rid, k.chunk>>},
                   !.persisted = IF ok THEN @ \cup {k.chunk} ELSE @]

ReadStart(t, bios, bufs) ==
    /\ rd[t].pc \in {"idle", "done"}
    /\ nreads < MaxReads
    /\ t = 1 \/ rd[1].pc # "idle"
    /\ nreads' = nreads + 1
    /\ LET reqs == merge_requests_for_user(bios, MergingSize)
           r == [IdleRd EXCEPT !.rid = nreads + 1, !.bios = bios, !.bufs = bufs,
                               !.reqs = reqs]
       IN rd' = [rd EXCEPT ![t] =
                    IF reqs = <<>> THEN Finish(r, "einval")
                    ELSE [r EXCEPT !.pc = "classify", !.ri = 1, !.ci = 1]]
    /\ UNCHANGED <<cfg, chunk_map, file, tasks, timedout, errlog, hist>>
    /\ UNCHANGED <<mgrVars, probe>>

\* is_ready(chunk, true) answers at once: the chunk is Ready, or it is Absent
\* and the caller claims it.
Classify(t) ==
    /\ rd[t].pc = "classify"
    /\ LET c == rd[t].reqs[rd[t].ri].chunks[rd[t].ci]
       IN \E k \in {ClassifyChunk(rd[t], is_ready_map(chunk_map, c),
                                  is_ready_result(chunk_map, c))} :
          /\ chunk_map[c] # InFlight
          /\ chunk_map' = k.cm
          /\ rd' = [rd EXCEPT ![t] = IF k.ok THEN AfterClassify(k.r)
                                     ELSE Finish(k.r, "einval")]
    /\ UNCHANGED <<cfg, file, tasks, nreads, timedout, errlog, hist>>
    /\ UNCHANGED <<mgrVars, probe>>

\* Variant: a readiness wait without a bound.
wait_expires_never(cm, c) == FALSE

\* The wait of is_ready on an InFlight chunk is bounded by
\* SINGLE_INFLIGHT_WAIT_TIMEOUT: it can expire while the chunk is InFlight.
wait_expires(cm, c) == cm[c] = InFlight

\* is_ready(chunk, true) on an InFlight chunk whose bounded wait expires:
\* the chunk is treated as Absent.
ClassifyTimeout(t) ==
    /\ rd[t].pc = "classify"
    /\ LET c == rd[t].reqs[rd[t].ri].chunks[rd[t].ci]
       IN \E k \in {ClassifyChunk(rd[t], chunk_map, FALSE)} :
          /\ wait_expires(chunk_map, c)
          /\ timedout' = timedout \cup {c}
          /\ chunk_map' = k.cm
          /\ rd' = [rd EXCEPT ![t] = IF k.ok THEN AfterClassify(k.r)
                                     ELSE Finish(k.r, "einval")]
    /\ UNCHANGED <<cfg, file, tasks, nreads, errlog, hist>>
    /\ UNCHANGED <<mgrVars, probe>>

\* The dispatch of the next region of the request.  An error ends the call;
\* the kind of the region that failed is recorded in "failed".
Dispatch(t, bo, wo) ==
    /\ rd[t].pc = "dispatch"
    /\ LET w == [cm |-> chunk_map, file |-> file, tasks |-> tasks, log |-> errlog,
                 r |-> rd[t]]
       IN \E d \in {dispatch_region(w, rd[t].regions[rd[t].gi], bo, wo)} :
          /\ chunk_map' = d.w.cm
          /\ file' = d.w.file
          /\ tasks' = d.w.tasks
          /\ errlog' = d.w.log
          /\ hist' = IF rd[t].regions[rd[t].gi].type = Backend
                     THEN Fetched(hist, d.w.tasks \ tasks)
                     ELSE hist
          /\ rd' = [rd EXCEPT ![t] =
                       IF d.err = "" THEN AfterDispatch(d.w.r, d.n)
                       ELSE [Finish(d.w.r, d.err) EXCEPT
                                !.failed = rd[t].regions[rd[t].gi].type]]
    /\ UNCHANGED <<cfg, nreads, timedout>>
    /\ UNCHANGED <<mgrVars, probe>>

\* A persistence task's pwrite.
PersistWrite(k, wo) ==
    /\ k \in tasks
    /\ k.wo = "none"
    /\ file' = Pwrite(file, k.offset, k.buf, WrittenBytes(k.buf, wo))
    /\ tasks' = (tasks \ {k}) \cup {[k EXCEPT !.wo = wo]}
    /\ UNCHANGED <<cfg, chunk_map, rd, nreads, timedout, errlog, hist>>
    /\ UNCHANGED <<mgrVars, probe>>

\* Variant: a failed task ends without releasing its chunk.
PersistDone_keeps(k) ==
    /\ k \in tasks
    /\ k.wo # "none"
    /\ tasks' = tasks \ {k}
    /\ hist' = Persisted(hist, k, persist_chunk_ok(k.buf, k.wo))
    /\ IF persist_chunk_ok(k.buf, k.wo)
       THEN /\ chunk_map' = set_ready(chunk_map, k.chunk)
            /\ errlog' = errlog
       ELSE /\ chunk_map' = chunk_map
            /\ errlog' = errlog \cup {k.chunk}
    /\ UNCHANGED <<cfg, file, rd, nreads, timedout>>
    /\ UNCHANGED <<mgrVars, probe>>

\* Variant: a failed task fails the read call that spawned it.
PersistDone_propagates(k) ==
    /\ k \in tasks
    /\ k.wo # "none"
    /\ tasks' = tasks \ {k}
    /\ hist' = Persisted(hist, k, persist_chunk_ok(k.buf, k.wo))
    /\ IF persist_chunk_ok(k.buf, k.wo)
       THEN /\ chunk_map' = set_ready(chunk_map, k.chunk)
            /\ errlog' = errlog
            /\ rd' = rd
       ELSE /\ chunk_map' = notify_ready(chunk_map, k.chunk)
            /\ errlog' = errlog \cup {k.chunk}
            /\ rd' = [t \in Threads |->
                         IF rd[t].rid = k.rid THEN [rd[t] EXCEPT !.res = "eio"]
                         ELSE rd[t]]
    /\ UNCHANGED <<cfg, file, nreads, timedout>>
    /\ UNCHANGED <<mgrVars, probe>>

\* Variant: a failed task marks its chunk Absent whatever its state.
PersistDone_resets(k) ==
    /\ k \in tasks
    /\ k.wo # "none"
    /\ tasks' = tasks \ {k}
    /\ hist' = Persisted(hist, k, persist_chunk_ok(k.buf, k.wo))
    /\ IF persist_chunk_ok(k.buf, k.wo)
       THEN /\ chunk_map' = set_ready(chunk_map, k.chunk)
            /\ errlog' = errlog
       ELSE /\ chunk_map' = [chunk_map EXCEPT ![k.chunk] = Absent]
            /\ errlog' = errlog \cup {k.chunk}
    /\ UNCHANGED <<cfg, file, rd, nreads, timedout>>
    /\ UNCHANGED <<mgrVars, probe>>

\* The end of a persistence task: set_ready after a full write, otherwise
\* the failure is logged and the chunk released.
PersistDone(k) ==
    /\ k \in tasks
    /\ k.wo # "none"
    /\ tasks' = tasks \ {k}
    /\ hist' = Persisted(hist, k, persist_chunk_ok(k.buf, k.wo))
    /\ IF persist_chunk_ok(k.buf, k.wo)
       THEN /\ chunk_map' = set_ready(chunk_map, k.chunk)
            /\ errlog' = errlog
       ELSE /\ chunk_map' = notify_ready(chunk_map, k.chunk)
            /\ errlog' = errlog \cup {k.chunk}
    /\ UNCHANGED <<cfg, file, rd, nreads, timedout>>
    /\ UNCHANGED <<mgrVars, probe>>

\* The readiness a fresh entry over the same cache directory starts with:
\* an indexed map opened over the indexed map's file finds the chunks that
\* were Ready; any other map starts empty.
create_chunk_map(cm, was_direct, is_direct) ==
    [c \in DOMAIN cm |->
        IF was_direct /\ is_direct /\ cm[c] = Ready THEN Ready ELSE Absent]

\* The entry is dropped when nothing runs on it, and a fresh entry is created
\* over the same cache file, with either kind of chunk map.
Reopen(is_direct) ==
    /\ ~hist.opened
    /\ 0 < nreads /\ nreads < MaxReads
    /\ tasks = {}
    /\ \A t \in Threads : rd[t].pc \in {"idle", "done"}
    /\ hist' = [hist EXCEPT !.opened = TRUE]
    /\ cfg' = [cfg EXCEPT !.is_direct_chunkmap = is_direct]
    /\ chunk_map' = create_chunk_map(chunk_map, cfg.is_direct_chunkmap, is_direct)
    /\ rd' = [t \in Threads |-> IdleRd]
    /\ UNCHANGED <<file, tasks, nreads, timedout, errlog, probe>>
    /\ UNCHANGED mgrVars

EntryInit ==
    /\ cfg \in Configs
    /\ chunk_map = [c \in Chunks |-> Absent]
    /\ file = <<>>
    /\ tasks = {}
    /\ rd = [t \in Threads |-> IdleRd]
    /\ nreads = 0
    /\ timedout = {}
    /\ errlog = {}
    /\ hist = NoHist
    /\ probe = <<>>

\* ---------------------------------------------------------- the manager
FSCACHE_BLOBS_CHECK_NUM == 1

BlobIds == {"a", "b"}
\* Blobs the fscache cannot serve: one with the no-external-blob-table
\* feature, one without an fscache file, one without valid blob meta.
BadIds == {"v5", "nofile", "nometa"}
Callers == {1, 2}
Destroyers == {1, 2}
NoEntry == 0

BlobInfoOf(b) ==
    [no_ext_blob_table |-> b = "v5",
     fscache_file |-> b # "nofile",
     meta_ci_is_valid |-> b # "nometa"]

\* FsCacheMgr::new: the compressed cache mode is refused.
FsCacheMgr_new(cc) == IF cc THEN "enosys" ELSE "ok"

\* The manager exists: its construction was not refused.
MgrCreated == FsCacheMgr_new(cache_compressed) = "ok"

\* Variant: a construction that refuses no blob.
new_fs_cache_accepts(info) == "ok"

\* FileCacheEntry::new_fs_cache: the checks on the blob, in order.
new_fs_cache(info) ==
    IF info.no_ext_blob_table THEN "einval"
    ELSE IF ~info.fscache_file THEN "einval"
    ELSE IF ~info.meta_ci_is_valid THEN "enosys"
    ELSE "ok"

IdleGet == [pc |-> "idle", blob |-> "", entry |-> NoEntry, ret |-> NoEntry, err |-> ""]

\* FsCacheMgr::get: the entry under the id, or NoEntry.
MgrGet(bs, b) == IF b \in DOMAIN bs THEN bs[b] ELSE NoEntry

\* The map without the entry under b.
MapRemove(bs, b) == [x \in DOMAIN bs \ {b} |-> bs[x]]

\* Arc::strong_count of entry e: the map's reference and one per caller that
\* holds the entry, for map bs and callers m.
strong_count(bs, m, e) ==
    Cardinality({b \in DOMAIN bs : bs[b] = e})
        + Cardinality({p \in Callers : m[p].pc = "done" /\ m[p].ret = e})

\* get_or_create_cache_entry, first lookup under the read lock: a hit
\* returns the entry, a miss goes on to construct one.
GetLookup(p, b) ==
    /\ MgrCreated
    /\ mg[p].pc = "idle"
    /\ ngets < MaxGets
    /\ ngets' = ngets + 1
    /\ mg' = [mg EXCEPT ![p] =
                 IF MgrGet(blobs, b) # NoEntry
                 THEN [IdleGet EXCEPT !.pc = "done", !.blob = b, !.ret = MgrGet(blobs, b)]
                 ELSE [IdleGet EXCEPT !.pc = "construct", !.blob = b]]
    /\ UNCHANGED <<blobs, nentries, removed>>
    /\ UNCHANGED mgrRest
    /\ UNCHANGED entryVars

\* FileCacheEntry::new_fs_cache and Arc::new, outside any lock; an error of
\* the construction is the call's error.
GetConstruct(p) ==
    /\ mg[p].pc = "construct"
    /\ LET res == new_fs_cache(BlobInfoOf(mg[p].blob))
       IN IF res = "ok"
          THEN /\ nentries' = nentries + 1
               /\ mg' = [mg EXCEPT ![p].pc = "insert", ![p].entry = nentries + 1]
          ELSE /\ nentries' = nentries
               /\ mg' = [mg EXCEPT ![p].pc = "failed", ![p].err = res]
    /\ UNCHANGED <<blobs, ngets, removed>>
    /\ UNCHANGED mgrRest
    /\ UNCHANGED entryVars

\* Variant: the insertion without the second check.
InsertOrGet_unchecked(bs, b, entry) ==
    [blobs |-> [x \in DOMAIN bs \cup {b} |-> IF x = b THEN entry ELSE bs[x]],
     ret |-> entry]

\* The second check and the insertion, under the write lock: [blobs, ret].
InsertOrGet(bs, b, entry) ==
    IF MgrGet(bs, b) # NoEntry THEN [blobs |-> bs, ret |-> MgrGet(bs, b)]
    ELSE [blobs |-> [x \in DOMAIN bs \cup {b} |-> IF x = b THEN entry ELSE bs[x]],
          ret |-> entry]

GetInsert(p) ==
    /\ mg[p].pc = "insert"
    /\ LET io == InsertOrGet(blobs, mg[p].blob, mg[p].entry)
       IN /\ blobs' = io.blobs
          /\ mg' = [mg EXCEPT ![p].pc = "done", ![p].ret = io.ret]
    /\ UNCHANGED <<nentries, ngets, removed>>
    /\ UNCHANGED mgrRest
    /\ UNCHANGED entryVars

\* The caller drops the entry it was given, or takes note of the error.
DropEntry(p) ==
    /\ mg[p].pc \in {"done", "failed"}
    /\ mg' = [mg EXCEPT ![p] = IdleGet]
    /\ UNCHANGED <<blobs, nentries, ngets, removed>>
    /\ UNCHANGED mgrRest
    /\ UNCHANGED entryVars

\* ------------------------------------------------------------------- gc
\* The gc call: its position, its argument ("" for None), its reclaim list
\* and its result; gone and kept are the keys its loop removed and left, snap
\* the callers as they were when it took its first lock.
IdleGc ==
    [pc |-> "idle", id |-> "", reclaim |-> {}, ret |-> FALSE, snap |-> <<>>,
     gone |-> {}, kept |-> {}]

\* gc(Some(blob_id)): the entry under the id is removed under the write
\* lock.
GcId(b) ==
    /\ MgrCreated
    /\ gcp.pc = "idle"
    /\ ncalls.gc < MaxGcs
    /\ ncalls' = [ncalls EXCEPT !.gc = @ + 1]
    /\ blobs' = MapRemove(blobs, b)
    /\ removed' = IF b \in DOMAIN blobs THEN removed \cup {b} ELSE removed
    /\ gcp' = [IdleGc EXCEPT !.pc = "len", !.id = b, !.snap = <<mg, ngets>>]
    /\ UNCHANGED <<mg, nentries, ngets>>
    /\ UNCHANGED <<cache_compressed, closed, blobs_check_count, data_all_ready,
                   effects, allready, dsp, streak, overlap, chk>>
    /\ UNCHANGED entryVars

\* gc(None), the scan under the write lock: the ids whose entry only the map
\* refers to.
GcScan ==
    /\ MgrCreated
    /\ gcp.pc = "idle"
    /\ ncalls.gc < MaxGcs
    /\ ncalls' = [ncalls EXCEPT !.gc = @ + 1]
    /\ LET reclaim == {b \in DOMAIN blobs : strong_count(blobs, mg, blobs[b]) = 1}
       IN gcp' = [IdleGc EXCEPT !.pc = IF reclaim = {} THEN "len" ELSE "reclaim",
                                !.reclaim = reclaim, !.snap = <<mg, ngets>>]
    /\ UNCHANGED getVars
    /\ UNCHANGED <<cache_compressed, closed, blobs_check_count, data_all_ready,
                   effects, allready, dsp, streak, overlap, chk>>
    /\ UNCHANGED entryVars

\* Variant: the removal without the second look at the reference count.
GcRecheck_present(bs, key) == key \in DOMAIN bs

\* gc(None), the second look at one key under the write lock.
GcRecheck(bs, key) == key \in DOMAIN bs /\ strong_count(bs, mg, bs[key]) = 1

\* gc(None), one round of the loop over the reclaim list.
GcReclaim(key) ==
    /\ gcp.pc = "reclaim"
    /\ key \in gcp.reclaim
    /\ IF GcRecheck(blobs, key)
       THEN /\ blobs' = MapRemove(blobs, key)
            /\ removed' = removed \cup {key}
       ELSE UNCHANGED <<blobs, removed>>
    /\ gcp' = [gcp EXCEPT !.reclaim = @ \ {key},
                          !.pc = IF gcp.reclaim = {key} THEN "len" ELSE "reclaim",
                          !.gone = IF GcRecheck(blobs, key) THEN @ \cup {key} ELSE @,
                          !.kept = IF GcRecheck(blobs, key) THEN @ ELSE @ \cup {key}]
    /\ UNCHANGED <<mg, nentries, ngets>>
    /\ UNCHANGED <<cache_compressed, closed, blobs_check_count, data_all_ready,
                   effects, allready, dsp, ncalls, streak, overlap, chk>>
    /\ UNCHANGED entryVars

\* Variant: a gc that always reports an empty map.
gc_result_true(bs) == TRUE

\* gc's result: the map is empty.
gc_result(bs) == DOMAIN bs = {}

\* gc, the final look at the map under the read lock.
GcLen ==
    /\ gcp.pc = "len"
    /\ gcp' = [gcp EXCEPT !.pc = "idle", !.ret = gc_result(blobs)]
    /\ UNCHANGED getVars
    /\ UNCHANGED <<cache_compressed, closed, blobs_check_count, data_all_ready,
                   effects, allready, dsp, ncalls, streak, overlap, chk>>
    /\ UNCHANGED entryVars

\* -------------------------------------------------------------- destroy
\* Variant: a destroy that does not look at closed.
destroy_acts_always(c) == TRUE

\* destroy's test of the closed flag it loaded.
destroy_acts(c) == ~c

\* destroy, the load of closed: a closed manager is left alone.
DestroyLoad(d) ==
    /\ MgrCreated
    /\ dsp[d] = "idle"
    /\ ncalls.destroy < MaxDestroys
    /\ ncalls' = [ncalls EXCEPT !.destroy = @ + 1]
    /\ dsp' = IF destroy_acts(closed) THEN [dsp EXCEPT ![d] = "act"] ELSE dsp
    /\ overlap' = (overlap \/ \E e \in Destroyers \ {d} : dsp[e] = "act")
    /\ UNCHANGED getVars
    /\ UNCHANGED <<cache_compressed, closed, blobs_check_count, data_all_ready,
                   effects, allready, gcp, streak, chk>>
    /\ UNCHANGED entryVars

\* destroy, after closed was seen false: closed is stored, the workers are
\* stopped, the backend is shut down and the metrics are released.
DestroyAct(d) ==
    /\ dsp[d] = "act"
    /\ dsp' = [dsp EXCEPT ![d] = "idle"]
    /\ closed' = TRUE
    /\ effects' = [effects EXCEPT !.stop = @ + 1, !.shutdown = @ + 1,
                                  !.release = @ + 1]
    /\ UNCHANGED getVars
    /\ UNCHANGED <<cache_compressed, blobs_check_count, data_all_ready,
                   allready, gcp, ncalls, streak, overlap, chk>>
    /\ UNCHANGED entryVars

\* ----------------------------------------------------------- check_stat
\* An entry's is_all_data_ready() starts to answer true.
EntryAllReady(b) ==
    /\ b \in DOMAIN blobs
    /\ blobs[b] \notin allready
    /\ allready' = allready \cup {blobs[b]}
    /\ UNCHANGED getVars
    /\ UNCHANGED <<cache_compressed, closed, blobs_check_count, data_all_ready,
                   effects, gcp, dsp, ncalls, streak, overlap, chk>>
    /\ UNCHANGED entryVars

\* check_stat's observation under the read lock.
all_ready(bs, ready) == \A b \in DOMAIN bs : bs[b] \in ready

\* Variant: a check_stat that declares without looking at its counter.
check_declares_always(count) == TRUE

\* check_stat declares readiness when its counter has reached the number of
\* checks.
check_declares(count) == count = FSCACHE_BLOBS_CHECK_NUM

CheckStat ==
    /\ MgrCreated
    /\ ncalls.check < MaxChecks
    /\ ncalls' = [ncalls EXCEPT !.check = @ + 1]
    /\ IF all_ready(blobs, allready)
       THEN /\ streak' = streak + 1
            /\ IF check_declares(blobs_check_count)
               THEN /\ effects' = [effects EXCEPT !.stop = @ + 1, !.declare = @ + 1]
                    /\ data_all_ready' = TRUE
                    /\ UNCHANGED blobs_check_count
               ELSE /\ blobs_check_count' = (blobs_check_count + 1) % 256
                    /\ UNCHANGED <<effects, data_all_ready>>
       ELSE /\ streak' = 0
            /\ blobs_check_count' = 0
            /\ UNCHANGED <<effects, data_all_ready>>
    /\ UNCHANGED getVars
    /\ UNCHANGED <<cache_compressed, closed, allready, gcp, dsp, overlap, chk>>
    /\ UNCHANGED entryVars

\* Threads that may be inside check_stat at the same time: the read lock is
\* shared.
Checkers == {1, 2}

\* No check_stat call holds the read lock: a writer can take the map.
NoReader == \A c \in Checkers : chk[c] = "idle"

\* check_stat, the walk over the entries under the read lock.
CheckObserve(c) ==
    /\ MgrCreated
    /\ chk[c] = "idle"
    /\ ncalls.check < MaxChecks
    /\ ncalls' = [ncalls EXCEPT !.check = @ + 1]
    /\ chk' = [chk EXCEPT ![c] = IF all_ready(blobs, allready)
                                 THEN "load" ELSE "reset"]
    /\ UNCHANGED getVars
    /\ UNCHANGED <<cache_compressed, closed, blobs_check_count, data_all_ready,
                   effects, allready, gcp, dsp, streak, overlap>>
    /\ UNCHANGED entryVars

\* check_stat, the load of blobs_check_count after an all-ready walk.
CheckLoad(c) ==
    /\ chk[c] = "load"
    /\ chk' = [chk EXCEPT ![c] = IF check_declares(blobs_check_count)
                                 THEN "declare" ELSE "add"]
    /\ UNCHANGED getVars
    /\ UNCHANGED <<cache_compressed, closed, blobs_check_count, data_all_ready,
                   effects, allready, gcp, dsp, ncalls, streak, overlap>>
    /\ UNCHANGED entryVars

\* check_stat, the branch taken: the declaration, the fetch_add or the
\* store of 0; the read lock is dropped.
CheckFinish(c) ==
    /\ chk[c] \in {"declare", "add", "reset"}
    /\ chk' = [chk EXCEPT ![c] = "idle"]
    /\ effects' = IF chk[c] = "declare"
                  THEN [effects EXCEPT !.stop = @ + 1, !.declare = @ + 1]
                  ELSE effects
    /\ data_all_ready' = (data_all_ready \/ chk[c] = "declare")
    /\ blobs_check_count' = CASE chk[c] = "add" -> (blobs_check_count + 1) % 256
                              [] chk[c] = "reset" -> 0
                              [] OTHER -> blobs_check_count
    /\ UNCHANGED getVars
    /\ UNCHANGED <<cache_compressed, closed, allready, gcp, dsp, ncalls, streak,
                   overlap>>
    /\ UNCHANGED entryVars

MgrInit ==
    /\ blobs = <<>>
    /\ mg = [p \in Callers |-> IdleGet]
    /\ nentries = 0
    /\ ngets = 0
    /\ removed = {}
    /\ cache_compressed \in BOOLEAN
    /\ closed = FALSE
    /\ blobs_check_count = 0
    /\ data_all_ready = FALSE
    /\ effects = [stop |-> 0, shutdown |-> 0, release |-> 0, declare |-> 0]
    /\ allready = {}
    /\ gcp = IdleGc
    /\ dsp = [d \in Destroyers |-> "idle"]
    /\ ncalls = [gc |-> 0, destroy |-> 0, check |-> 0]
    /\ streak = 0
    /\ overlap = FALSE
    /\ chk = [c \in Checkers |-> "idle"]

\* The entry is studied under a manager that exists.
Init == EntryInit /\ MgrInit /\ ~cache_compressed

Next ==
    \/ \E t \in Threads, bios \in BioChoices :
          \E bufs \in BufShapes(bios) : ReadStart(t, bios, bufs)
    \/ \E t \in Threads : Classify(t)
    \/ \E t \in Threads : ClassifyTimeout(t)
    \/ \E t \in Threads, bo \in BackendOutcomes, wo \in WriteOutcomes : Dispatch(t, bo, wo)
    \/ \E k \in tasks, wo \in WriteOutcomes : PersistWrite(k, wo)
    \/ \E k \in tasks : PersistDone(k)

Spec == Init /\ [][Next]_vars

\* Two reads that ask for the chunks in opposite orders, so that each can
\* wait on a chunk the other's call has put InFlight.
WaitBios ==
    { <<UserIo(0, 1, 1), UserIo(1, 0, 1)>>,
      <<UserIo(1, 1, 1), UserIo(0, 0, 1)>> }

WaitNext ==
    \/ \E t \in Threads, bios \in WaitBios :
          \E bufs \in BufShapes(bios) : ReadStart(t, bios, bufs)
    \/ \E t \in Threads : Classify(t)
    \/ \E t \in Threads : ClassifyTimeout(t)
    \/ \E t \in Threads, bo \in BackendOutcomes, wo \in WriteOutcomes : Dispatch(t, bo, wo)
    \/ \E k \in tasks, wo \in WriteOutcomes : PersistWrite(k, wo)
    \/ \E k \in tasks : PersistDone(k)

\* Thread t's next step inside read_iter.
ReadStep(t) ==
    \/ Classify(t)
    \/ ClassifyTimeout(t)
    \/ \E bo \in BackendOutcomes, wo \in WriteOutcomes : Dispatch(t, bo, wo)

\* ReadStep(t) is enabled: the thread dispatches, or its readiness query
\* answers at once, or the wait it is in can expire.
CanStep(t) ==
    \/ rd[t].pc = "dispatch"
    \/ /\ rd[t].pc = "classify"
       /\ LET c == rd[t].reqs[rd[t].ri].chunks[rd[t].ci]
          IN chunk_map[c] # InFlight \/ wait_expires(chunk_map, c)

\* A thread inside a read call goes on: WF_vars(ReadStep(t)), written with
\* ReadStep's enabling condition.  Nothing is assumed about the persistence
\* tasks.
WaitSpec ==
    /\ Init
    /\ [][WaitNext]_vars
    /\ \A t \in Threads : []<>(~CanStep(t)) \/ []<><<ReadStep(t)>>_vars

\* ------------------------------------- the classification, on its own
\* Every combination of the entry's flags.
AllConfigs ==
    [is_compressed : BOOLEAN, need_validate : BOOLEAN,
     is_direct_chunkmap : BOOLEAN, is_stargz : BOOLEAN]

\* Requests that merge into one merged request of one or two chunks.
FnBios ==
    { <<UserIo(0, 1, 1)>>, <<UserIo(1, 0, 2)>>, <<InternalIo(0)>>, <<InternalIo(1)>>,
      <<UserIo(0, 1, 1), UserIo(1, 0, 1)>>,
      <<UserIo(0, 0, 2), InternalIo(1)>> }

\* One round of the classification loop on map cm: the readiness query (an
\* InFlight chunk is answered not ready, as after the wait) and the
\* classification: [ok, r, cm, is_ready].
ClassifyRound(r, cm) ==
    LET c == r.reqs[r.ri].chunks[r.ci]
        is_ready == cm[c] # InFlight /\ is_ready_result(cm, c)
        cm1 == IF cm[c] = InFlight THEN cm ELSE is_ready_map(cm, c)
        k == ClassifyChunk(r, cm1, is_ready)
    IN k @@ [is_ready |-> is_ready, cm_in |-> cm]

\* read_iter's classification of the last chunk of a request, the chunks
\* before it classified first: probe keeps what it was given and what it
\* left.
ApplyClassify(bios, cm) ==
    /\ probe = <<>>
    /\ LET reqs == merge_requests_for_user(bios, MergingSize)
           r0 == [IdleRd EXCEPT !.pc = "classify", !.bios = bios, !.reqs = reqs,
                                !.ri = 1, !.ci = 1]
           first == ClassifyRound(r0, cm)
           two == Len(bios) = 2
           r1 == IF two THEN [first.r EXCEPT !.ci = 2] ELSE r0
           cm1 == IF two THEN first.cm ELSE cm
           last == ClassifyRound(r1, cm1)
       IN /\ Len(reqs) = 1
          /\ two => first.ok
          /\ probe' = [op |-> "classify",
                       chunk |-> bios[Len(bios)].chunk,
                       tag |-> TagOf(bios[Len(bios)]),
                       is_ready |-> last.is_ready,
                       before |-> r1.regions,
                       ok |-> last.ok,
                       after |-> last.r.regions,
                       cm_in |-> last.cm_in,
                       cm_out |-> last.cm,
                       notified |-> last.notified]
    /\ UNCHANGED <<cfg, chunk_map, file, tasks, rd, nreads, timedout, errlog, hist>>
    /\ UNCHANGED mgrVars

\* FileIoMergeState::push of a range on a list that holds one region: probe
\* keeps the list before, the arguments and the result.
ApplyPush(type1, start1, len1, region_type, start, len, user) ==
    /\ probe = <<>>
    /\ LET tag == [user |-> user, offset |-> 0, len |-> len]
           one == FileIoMergeState_push(<<>>, type1, start1, len1, tag,
                                        type1 # CacheFast, 0)
           res == FileIoMergeState_push(one.regions, region_type, start, len, tag,
                                        region_type # CacheFast, 1)
       IN /\ one.ok
          /\ probe' = [op |-> "push", before |-> one.regions,
                       region_type |-> region_type, start |-> start, len |-> len,
                       ok |-> res.ok, after |-> res.regions]
    /\ UNCHANGED <<cfg, chunk_map, file, tasks, rd, nreads, timedout, errlog, hist>>
    /\ UNCHANGED mgrVars

\* Region::append on its own: a first append opens a region of the given
\* kind, a second one is tried at start, and a third one is made at the
\* region's end, after the second and, for comparison, without it.
ApplyAppend(region_type, start1, len1, user1, start, len, user) ==
    /\ probe = <<>>
    /\ LET has_chunk == region_type # CacheFast
           tag1 == [user |-> user1, offset |-> 1, len |-> len1]
           tag == [user |-> user, offset |-> 0, len |-> len]
           one == Region_append(Region_new(region_type), start1, len1, tag1, has_chunk, 0)
           two == Region_append(one.r, start, len, tag, has_chunk, 1)
           next == one.r.blob_address + one.r.blob_len
       IN /\ one.ok
          /\ probe' = [op |-> "append", start |-> start, opened |-> one.r,
                       second |-> two,
                       third |-> Region_append(two.r, next, len, tag, has_chunk, 1),
                       direct |-> Region_append(one.r, next, len, tag, has_chunk, 1)]
    /\ UNCHANGED <<cfg, chunk_map, file, tasks, rd, nreads, timedout, errlog, hist>>
    /\ UNCHANGED mgrVars

\* The classification loop over the chunks of the request from r.ci on:
\* [ok, r]; not ok is the push that failed.
RECURSIVE ClassifyAll(_, _)
\* The loop after a round that left k.
ClassifyRest(k) ==
    IF ~k.ok THEN [ok |-> FALSE, r |-> k.r]
    ELSE ClassifyAll([k.r EXCEPT !.ci = @ + 1], k.cm)

ClassifyAll(r, cm) ==
    IF r.ci > Len(r.reqs[r.ri].chunks) THEN [ok |-> TRUE, r |-> r]
    ELSE ClassifyRest(ClassifyRound(r, cm))

\* Requests over the three chunks that follow each other in the blob, each
\* asked for by the user or prefetched.
KindBios ==
    {<<d0, d1, d2>> : d0 \in {UserIo(0, 0, 2), InternalIo(0)},
                      d1 \in {UserIo(1, 0, 2), InternalIo(1)},
                      d2 \in {UserIo(2, 0, 2), InternalIo(2)}}

\* read_iter's classification of one merged request of three chunks on map
\* cm: probe keeps the request and the regions built.
ApplyKinds(bios, cm) ==
    /\ probe = <<>>
    /\ LET reqs == merge_requests_for_user(bios, MergingSize)
           r0 == [IdleRd EXCEPT !.pc = "classify", !.bios = bios, !.reqs = reqs,
                                !.ri = 1, !.ci = 1]
           all == ClassifyAll(r0, cm)
       IN /\ Len(reqs) = 1
          /\ probe' = [op |-> "kinds", bios |-> bios, cm_in |-> cm, ok |-> all.ok,
                       regions |-> all.r.regions]
    /\ UNCHANGED <<cfg, chunk_map, file, tasks, rd, nreads, timedout, errlog, hist>>
    /\ UNCHANGED mgrVars

\* Descriptor lists for the merging on its own: up to MaxBios whole-chunk
\* descriptors over the three chunks of the blob, in any order.
MergeBios ==
    UNION {[1..n -> {UserIo(c, 0, 2) : c \in BlobChunks}
                    \cup {InternalIo(c) : c \in BlobChunks}] : n \in 1..MaxBios}

\* merge_requests_for_user on its own: probe keeps the input and the
\* requests.
ApplyMerge(bios, merging_size) ==
    /\ probe = <<>>
    /\ probe' = [op |-> "merge", bios |-> bios, merging_size |-> merging_size,
                 reqs |-> merge_requests_for_user(bios, merging_size)]
    /\ UNCHANGED <<cfg, chunk_map, file, tasks, rd, nreads, timedout, errlog, hist>>
    /\ UNCHANGED mgrVars

\* Cache files for read_single_chunk on its own: empty, both chunks stored
\* uncompressed, both stored as in the blob, and chunk 0 uncompressed at its
\* compressed offset.
FnFiles == {<<>>, ChunkData(0) \o ChunkData(1), BlobBytes, ChunkData(0)}

\* read_single_chunk on its own, for the whole of chunk c, on map cm and
\* cache file f (a stargz entry stores compressed data): probe keeps what it
\* was given and what came out.
ApplySingle(cm, f, c, bo, wo) ==
    /\ probe = <<>>
    /\ cfg.is_stargz => cfg.is_compressed
    /\ LET w == [cm |-> cm, file |-> f, tasks |-> {}, log |-> {},
                 r |-> [IdleRd EXCEPT !.pc = "dispatch", !.rid = 1,
                                      !.bufs = <<<<0, 0>>>>]]
           one == read_single_chunk(w, c, 0, uncompress_size(c), bo, wo)
       IN probe' = [op |-> "single", chunk |-> c, cm_in |-> cm, file_in |-> f,
                    cached |-> read_file_cache(f, c),
                    err |-> one.err, n |-> one.n, cm_out |-> one.w.cm,
                    file_out |-> one.w.file, tasks |-> one.w.tasks,
                    breads |-> one.w.r.breads, bufs |-> one.w.r.bufs]
    /\ UNCHANGED <<cfg, chunk_map, file, tasks, rd, nreads, timedout, errlog, hist>>
    /\ UNCHANGED mgrVars

\* What an append is given besides its start: the length of the range and
\* the tag, Internal or User with a segment of one or two bytes.
AppendItems ==
    {[len |-> l, tag |-> g] :
        l \in 1..2,
        g \in {[user |-> FALSE, offset |-> 0, len |-> 2],
               [user |-> TRUE, offset |-> 0, len |-> 1],
               [user |-> TRUE, offset |-> 1, len |-> 1],
               [user |-> TRUE, offset |-> 1, len |-> 2]}}

AppendLists == UNION {[1..n -> AppendItems] : n \in 0..MaxAppends}

\* The appends of the items from the i-th on, each at the end of the one
\* before it, the i-th at start; res is the result so far: [ok, r].
RECURSIVE AppendFrom(_, _, _, _, _)
AppendFrom(res, items, i, start, has_chunk) ==
    IF i > Len(items) \/ ~res.ok THEN res
    ELSE AppendFrom(Region_append(res.r, start, items[i].len, items[i].tag,
                                  has_chunk, i - 1),
                    items, i + 1, start + items[i].len, has_chunk)

\* A sequence of appends on a new region of the given kind, the first at
\* start: probe keeps the arguments and the region.
ApplyAppends(region_type, start, items) ==
    /\ probe = <<>>
    /\ probe' = [op |-> "appends", start |-> start, items |-> items,
                 has_chunk |-> region_type # CacheFast,
                 res |-> AppendFrom([ok |-> TRUE, r |-> Region_new(region_type)],
                                    items, 1, start, region_type # CacheFast)]
    /\ UNCHANGED <<cfg, chunk_map, file, tasks, rd, nreads, timedout, errlog, hist>>
    /\ UNCHANGED mgrVars

FnInit ==
    /\ EntryInit
    /\ cfg \in AllConfigs
    /\ MgrInit
    /\ ~cache_compressed

FnNext ==
    \/ \E bios \in FnBios, cm \in [Chunks -> {Absent, InFlight, Ready}] :
          ApplyClassify(bios, cm)
    \/ \E type1, region_type \in {CacheFast, CacheSlow, Backend},
          start1 \in {0, 1}, start \in 0..MaxAddr, len1, len \in 1..2,
          user \in BOOLEAN :
          ApplyPush(type1, start1, len1, region_type, start, len, user)
    \/ \E cm \in [Chunks -> {Absent, InFlight, Ready}], f \in FnFiles, c \in Chunks,
          bo \in BackendOutcomes, wo \in WriteOutcomes :
          ApplySingle(cm, f, c, bo, wo)
    \/ \E bios \in MergeBios, merging_size \in {MergingSize \div 2, MergingSize} :
          ApplyMerge(bios, merging_size)
    \/ \E bios \in KindBios, cm \in [0..2 -> {Absent, InFlight, Ready}] :
          ApplyKinds(bios, cm)
    \/ \E region_type \in {CacheFast, CacheSlow, Backend}, start1 \in {0, 1},
          start \in 0..MaxAddr, len1, len \in 1..2, user1, user \in BOOLEAN :
          ApplyAppend(region_type, start1, len1, user1, start, len, user)
    \/ \E region_type \in {CacheFast, CacheSlow, Backend}, start \in {0, 1},
          items \in AppendLists :
          ApplyAppends(region_type, start, items)

FnSpec == FnInit /\ [][FnNext]_vars

\* ------------------------------------------- the buffer helpers, on their own
\* Source buffers of up to three bytes in one or two buffers, one of them
\* empty; the bytes differ from each other and from the destination's.
CopySrcs ==
    { <<>>, <<<<1>>>>, <<<<1, 2>>>>, <<<<1>>, <<2, 3>>>>, <<<<1, 2>>, <<3>>>>,
      <<<<>>, <<1>>>> }

\* Destinations of up to three zero bytes in up to two slices.
CopyDsts ==
    { <<>>, <<<<0>>>>, <<<<0, 0>>>>, <<<<0>>, <<0>>>>, <<<<0, 0>>, <<0>>>>,
      <<<<0>>, <<0, 0>>>> }

\* copyv on its own: probe keeps the arguments and the result.
ApplyCopyv(src, dst, offset, length, dst_index, dst_offset) ==
    /\ probe = <<>>
    /\ probe' = [op |-> "copyv", src |-> src, dst |-> dst, offset |-> offset,
                 length |-> length, dst_index |-> dst_index,
                 dst_offset |-> dst_offset,
                 res |-> copyv(src, dst, offset, length, dst_index, dst_offset)]
    /\ UNCHANGED <<cfg, chunk_map, file, tasks, rd, nreads, timedout, errlog, hist>>
    /\ UNCHANGED mgrVars

\* Slice lists for a cursor: none, the two slices of two bytes of the unit
\* tests, slices of different lengths, and lists with an empty slice.
CursorBufs ==
    { <<>>, <<<<0, 0>>>>, <<<<0, 0>>, <<0, 0>>>>, <<<<0>>, <<0, 0>>>>,
      <<<<>>, <<0>>>>, <<<<0>>, <<>>>> }

\* MemSliceCursor::new on a slice list: probe is the cursor, the number of
\* calls made on it and the last call.
CursorNew(bufs) ==
    /\ probe = <<>>
    /\ probe' = [op |-> "cursor", bufs |-> bufs, cur |-> NewCursor, steps |-> 0,
                 last |-> <<>>]
    /\ UNCHANGED <<cfg, chunk_map, file, tasks, rd, nreads, timedout, errlog, hist>>
    /\ UNCHANGED mgrVars

\* move_cursor(size) on the cursor.
CursorMove(size) ==
    /\ probe # <<>> /\ probe.op = "cursor"
    /\ probe.steps < MaxSteps
    /\ probe' = [probe EXCEPT
                    !.cur = move_cursor(probe.bufs, probe.cur, size),
                    !.steps = @ + 1,
                    !.last = [kind |-> "move", size |-> size, before |-> probe.cur,
                              vecs |-> <<>>]]
    /\ UNCHANGED <<cfg, chunk_map, file, tasks, rd, nreads, timedout, errlog, hist>>
    /\ UNCHANGED mgrVars

\* consume(size) on the cursor.
CursorConsume(size) ==
    /\ probe # <<>> /\ probe.op = "cursor"
    /\ probe.steps < MaxSteps
    /\ \E c \in {consume(probe.bufs, probe.cur, size)} :
          probe' = [probe EXCEPT
                       !.cur = c.cur,
                       !.steps = @ + 1,
                       !.last = [kind |-> "consume", size |-> size,
                                 before |-> probe.cur, vecs |-> c.vecs]]
    /\ UNCHANGED <<cfg, chunk_map, file, tasks, rd, nreads, timedout, errlog, hist>>
    /\ UNCHANGED mgrVars

\* The helpers do not read the entry's flags: one entry stands for all.
BufInit ==
    /\ Init
    /\ cfg = [is_compressed |-> FALSE, need_validate |-> FALSE,
              is_direct_chunkmap |-> TRUE, is_stargz |-> FALSE]

BufNext ==
    \/ \E src \in CopySrcs, dst \in CopyDsts, offset \in 0..MaxCopy,
          length \in 0..MaxCopy + 1, dst_index \in 0..2, dst_offset \in 0..MaxCopy :
          ApplyCopyv(src, dst, offset, length, dst_index, dst_offset)
    \/ \E bufs \in CursorBufs : CursorNew(bufs)
    \/ \E size \in 0..MaxCopy : CursorMove(size)
    \/ \E size \in 0..MaxCopy : CursorConsume(size)

BufSpec == BufInit /\ [][BufNext]_vars

\* The entry with one reopening in its life.
ReopenNext ==
    \/ Next
    \/ \E is_direct \in BOOLEAN : Reopen(is_direct)

ReopenSpec == Init /\ [][ReopenNext]_vars

\* The manager alone, over one fixed entry configuration.
MgrNext ==
    \/ \E p \in Callers, b \in BlobIds \cup BadIds : GetLookup(p, b)
    \/ \E p \in Callers : GetConstruct(p)
    \/ \E p \in Callers : GetInsert(p)
    \/ \E p \in Callers : DropEntry(p)
    \/ \E b \in BlobIds : GcId(b)
    \/ GcScan
    \/ \E key \in BlobIds : GcReclaim(key)
    \/ GcLen

MgrSpecInit ==
    /\ EntryInit
    /\ cfg = [is_compressed |-> FALSE, need_validate |-> FALSE,
              is_direct_chunkmap |-> TRUE, is_stargz |-> FALSE]
    /\ MgrInit

MgrSpec == MgrSpecInit /\ [][MgrNext]_vars

\* The manager's life: lookups, destroy and the periodic check_stat.
LifeNext ==
    \/ \E p \in Callers, b \in BlobIds : GetLookup(p, b)
    \/ \E p \in Callers : GetConstruct(p)
    \/ \E p \in Callers : GetInsert(p)
    \/ \E p \in Callers : DropEntry(p)
    \/ \E d \in Destroyers : DestroyLoad(d)
    \/ \E d \in Destroyers : DestroyAct(d)
    \/ \E b \in BlobIds : EntryAllReady(b)
    \/ CheckStat

LifeSpec == MgrSpecInit /\ [][LifeNext]_vars

\* The thread that looks entries up while check_stat runs.
WatchCallers == {1}

\* check_stat called from two threads, beside lookups and gc: a step that
\* takes the write lock waits for the check_stat calls in progress.
WatchNext ==
    \/ \E p \in WatchCallers, b \in BlobIds : GetLookup(p, b)
    \/ \E p \in WatchCallers : GetConstruct(p)
    \/ \E p \in WatchCallers : NoReader /\ GetInsert(p)
    \/ \E p \in WatchCallers : DropEntry(p)
    \/ \E b \in BlobIds : NoReader /\ GcId(b)
    \/ NoReader /\ GcScan
    \/ \E key \in BlobIds : NoReader /\ GcReclaim(key)
    \/ GcLen
    \/ \E b \in BlobIds : EntryAllReady(b)
    \/ \E c \in Checkers : CheckObserve(c)
    \/ \E c \in Checkers : CheckLoad(c)
    \/ \E c \in Checkers : CheckFinish(c)

WatchSpec == MgrSpecInit /\ [][WatchNext]_vars

\* ============================================================ properties

\* Where and what the entry stores for chunk c: the raw chunk at
\* compress_offset when the entry keeps compressed data, the chunk's content
\* at uncompress_offset otherwise.
StoredOffset(c) == IF cfg.is_compressed THEN compress_offset(c) ELSE uncompress_offset(c)
StoredBytes(c) == IF cfg.is_compressed THEN RawChunk(c) ELSE ChunkData(c)

\* C1: in every reachable state, a chunk that is Ready in the readiness map
\* has its canonical bytes in the cache file at its storage offset, over its
\* stored size.
C1_ReadyIsCanonical ==
    \A c \in Chunks :
        chunk_map[c] = Ready =>
            Pread(file, StoredOffset(c), Len(StoredBytes(c))) = StoredBytes(c)

\* The bytes a read call asks for: the requested sub-range of each user IO's
\* chunk, in input order.
RECURSIVE Expected(_)
Expected(bios) ==
    IF bios = <<>> THEN <<>>
    ELSE (IF Head(bios).user_io
          THEN Slice(ChunkData(Head(bios).chunk), Head(bios).offset, Head(bios).size)
          ELSE <<>>) \o Expected(Tail(bios))

\* C2: a read call that returned Ok(n) has filled the user's buffers with the
\* concatenation of the requested sub-ranges, and n is the sum of the
\* requested lengths.
C2_ReadReturnsRequested ==
    \A t \in Threads :
        (rd[t].pc = "done" /\ rd[t].res = "ok") =>
            /\ Flatten(rd[t].bufs) = Expected(rd[t].bios)
            /\ rd[t].total = UserLen(rd[t].bios)

\* The changes of state of a chunk in one step.
Moves == {<<chunk_map[c], chunk_map'[c]>> : c \in {x \in Chunks : chunk_map'[x] # chunk_map[x]}}

\* C3 as stated: a chunk's state changes only by Absent -> InFlight,
\* InFlight -> Ready and InFlight -> Absent.
C3_OnlyThreeTransitions ==
    [][Moves \subseteq {<<Absent, InFlight>>, <<InFlight, Ready>>, <<InFlight, Absent>>}]_vars

\* C3, amended: a chunk is always in one of the three states and its state
\* changes only by Absent -> InFlight, InFlight -> Ready, InFlight -> Absent
\* and Absent -> Ready (set_ready by a fetch that went on after the chunk was
\* released); a Ready chunk never changes.
C3_Transitions ==
    [][/\ \A c \in Chunks : chunk_map'[c] \in {Absent, InFlight, Ready}
       /\ Moves \subseteq {<<Absent, InFlight>>, <<InFlight, Ready>>,
                           <<InFlight, Absent>>, <<Absent, Ready>>}]_vars

\* A chunk that was claimed, waited for until the timeout, released after a
\* failure and made Ready in the end.
C3_Witness ==
    \E c \in Chunks : chunk_map[c] = Ready /\ c \in timedout /\ c \in errlog

\* The regions of thread t's call that are classified and not yet dispatched.
PendingRegions(t) ==
    IF rd[t].pc = "classify" THEN {rd[t].regions[k] : k \in 1..Len(rd[t].regions)}
    ELSE IF rd[t].pc = "dispatch"
    THEN {rd[t].regions[k] : k \in rd[t].gi..Len(rd[t].regions)}
    ELSE {}

InRegion(c, region) == \E i \in 1..Len(region.chunks) : region.chunks[i] = c

\* The threads whose call holds chunk c in a pending region.
Holders(c) == {t \in Threads : \E g \in PendingRegions(t) : InRegion(c, g)}

\* The threads with a backend fetch covering c in progress: c is in a pending
\* Backend region, or in a pending CacheSlow region and not Ready.
Fetchers(c) ==
    {t \in Threads :
        \E g \in PendingRegions(t) :
            /\ InRegion(c, g)
            /\ \/ g.type = Backend
               \/ g.type = CacheSlow /\ chunk_map[c] # Ready}

\* The threads blocked in is_ready(c, true) on the InFlight chunk c.
Waiters(c) ==
    {t \in Threads :
        /\ rd[t].pc = "classify"
        /\ rd[t].reqs[rd[t].ri].chunks[rd[t].ci] = c
        /\ chunk_map[c] = InFlight}

\* C4 as stated: at any moment at most one backend fetch covering a chunk is
\* in progress, and every other requester waits or serves the chunk from the
\* cache file once it is Ready.
C4_OneFetchPerChunk ==
    \A c \in Chunks :
        /\ Cardinality(Fetchers(c)) <= 1
        /\ \A t \in Holders(c) \ Fetchers(c) : chunk_map[c] = Ready

\* C4, amended: as long as no readiness wait on c has timed out, at most one
\* backend fetch covering c is in progress, and every other requester waits
\* on c or serves it from the cache file once it is Ready.
C4_OneFetchUnlessTimeout ==
    \A c \in Chunks \ timedout :
        /\ Cardinality(Fetchers(c)) <= 1
        /\ \A t \in Holders(c) \ Fetchers(c) : chunk_map[c] = Ready

\* One thread fetches c while the other waits for it, with no timeout so far.
C4_Witness ==
    \E c \in Chunks \ timedout :
        /\ Cardinality(Fetchers(c)) = 1
        /\ Waiters(c) \ Fetchers(c) # {}

\* Thread t's call asked for bytes of chunk c.
Requested(t, c) ==
    \E i \in 1..Len(rd[t].bios) : rd[t].bios[i].user_io /\ rd[t].bios[i].chunk = c

\* The backend reads of thread t's call that cover chunk c.
ReadsCovering(t, c) ==
    {i \in 1..Len(rd[t].breads) :
        /\ rd[t].breads[i][1] <= compress_offset(c)
        /\ compress_offset(c) + compress_size(c) <= rd[t].breads[i][1] + rd[t].breads[i][2]}

\* Two read calls, one per thread, both asking for chunk 0 of the fresh
\* entry, have returned Ok and every persistence task has ended without a
\* failure.
BothReadC0 ==
    /\ \A t \in Threads : rd[t].pc = "done" /\ rd[t].res = "ok" /\ Requested(t, 0)
    /\ tasks = {}
    /\ errlog = {}

\* C5: when two threads read the same Absent chunk c0 and nothing fails, both
\* get the canonical content, the backend read covering c0 is invoked at
\* most twice, and c0 ends Ready.
C5_TwoReaders ==
    BothReadC0 =>
        /\ \A t \in Threads : Flatten(rd[t].bufs) = Expected(rd[t].bios)
        /\ Cardinality(ReadsCovering(1, 0)) + Cardinality(ReadsCovering(2, 0)) <= 2
        /\ chunk_map[0] = Ready

\* The persistence tasks are scheduled fairly: a spawned task runs to its end.
FairSpec ==
    /\ Spec
    /\ WF_vars(\E k \in tasks, wo \in WriteOutcomes : PersistWrite(k, wo))
    /\ WF_vars(\E k \in tasks : PersistDone(k))

\* C6: a chunk whose data a read call fetched from the backend and handed to
\* a persistence task eventually leaves InFlight under fair scheduling of the
\* task: it ends Ready, or Absent with a logged failure.
C6_PersistEnds ==
    \A c \in Chunks :
        (\E k \in tasks : k.chunk = c)
            ~> (chunk_map[c] = Ready \/ (chunk_map[c] = Absent /\ c \in errlog))

\* A failed persistence task has ended (the entry stores uncompressed data,
\* so only tasks write): its chunk is Absent again, the failure is logged,
\* and the call that fetched the chunk returned Ok.
C6_Witness ==
    \E c \in Chunks, t \in Threads :
        /\ ~cfg.is_compressed
        /\ tasks = {}
        /\ chunk_map[c] = Absent
        /\ c \in errlog
        /\ rd[t].pc = "done" /\ rd[t].res = "ok" /\ Requested(t, c)

\* The persistence tasks that end in this step.
EndedTasks == {k \in tasks \ tasks' : k.wo # "none"}

\* The thread whose dispatch of a region of one chunk logged a failure of the
\* persistence write it made itself.
SyncPersistFailed(t) ==
    /\ rd[t].pc = "dispatch"
    /\ rd'[t] # rd[t]
    /\ errlog' # errlog
    /\ Len(rd[t].regions[rd[t].gi].chunks) = 1

\* C7: a failed persistence write is not propagated to the read call that
\* fetched the chunk: the task held the chunk's correct bytes, the failure
\* changes no read call's state or result, and its only effects are
\* notify_ready (InFlight -> Absent) and a logged error; a read call that
\* writes the chunk itself still delivers the bytes.
C7_PersistFailureIsLocal ==
    [][/\ \A k \in EndedTasks :
             ~persist_chunk_ok(k.buf, k.wo) =>
                 /\ k.buf = ChunkData(k.chunk)
                 /\ rd' = rd
                 /\ file' = file
                 /\ chunk_map' = [chunk_map EXCEPT ![k.chunk] =
                                     IF @ = InFlight THEN Absent ELSE @]
                 /\ errlog' = errlog \cup {k.chunk}
       /\ \A t \in Threads :
             SyncPersistFailed(t) =>
                 LET region == rd[t].regions[rd[t].gi]
                 IN /\ rd'[t].res \in {"none", "ok"}
                    /\ rd'[t].total = rd[t].total + region.seg.len
                    /\ Slice(Flatten(rd'[t].bufs), rd[t].total, region.seg.len)
                         = Slice(ChunkData(region.chunks[1]), region.seg.offset,
                                 region.seg.len)]_vars

\* A read call returned Ok with the requested bytes although the persistence
\* of a chunk it fetched failed and put the chunk back to Absent.
C7_Witness ==
    \E c \in Chunks, t \in Threads :
        /\ ~cfg.is_compressed
        /\ c \in errlog
        /\ chunk_map[c] = Absent
        /\ rd[t].pc = "done" /\ rd[t].res = "ok" /\ Requested(t, c)
        /\ Flatten(rd[t].bufs) = Expected(rd[t].bios)
        /\ \A k \in tasks : k.rid # rd[t].rid

\* C8: a read call that failed with an Io error because the backend read of
\* a Backend region failed or came back short has written no byte to the
\* user's buffers, the
\* bytes of the regions that precede the failing region included.
C8_NoBytesOnBackendFailure ==
    \A t \in Threads :
        (rd[t].pc = "done" /\ rd[t].res = "eio" /\ rd[t].failed = Backend) =>
            \A i \in 1..Len(Flatten(rd[t].bufs)) : Flatten(rd[t].bufs)[i] = 0

Got(b) == {p \in Callers : mg[p].pc = "done" /\ mg[p].blob = b}

\* C10: concurrent get_blob_cache calls with the same blob id all receive
\* the entry that the map holds under the id, and an entry constructed by a
\* caller that lost the insertion race is neither returned nor inserted
\* (while no gc removes the id).
C10_SameEntry ==
    \A b \in BlobIds \ removed :
        /\ \A p \in Got(b) : b \in DOMAIN blobs /\ mg[p].ret = blobs[b]
        /\ \A p \in Callers :
              (mg[p].pc = "done" /\ mg[p].entry # NoEntry /\ mg[p].entry # mg[p].ret) =>
                  /\ \A x \in DOMAIN blobs : blobs[x] # mg[p].entry
                  /\ \A q \in Callers : mg[q].ret # mg[p].entry

\* Two callers raced on one id: both constructed an entry, one lost, and
\* both hold the winner's entry.
C10_Witness ==
    \E b \in BlobIds \ removed, p, q \in Callers :
        /\ p # q
        /\ {p, q} \subseteq Got(b)
        /\ mg[p].entry # NoEntry /\ mg[q].entry # NoEntry
        /\ mg[p].entry # mg[p].ret
        /\ mg[q].ret = mg[p].ret

\* C11: once closed is true, the keys of the entries map never grow (no
\* get_blob_cache call creates an entry after destroy has set closed).
C11_NoNewEntryAfterClose ==
    [][closed => DOMAIN blobs' \subseteq DOMAIN blobs]_vars

\* The one-way half of C11: closed never goes back to false.
ClosedOneWay == [][closed => closed']_vars

\* A destroy call starts and finds the manager closed.
LaterDestroy ==
    /\ ncalls'.destroy = ncalls.destroy + 1
    /\ closed

\* A destroy call that found the manager open completes.
FirstDestroy == \E d \in Destroyers : dsp[d] = "act" /\ dsp'[d] = "idle"

\* worker_mgr.stop calls made by destroy (check_stat makes the others).
DestroyStops(eff) == eff.stop - eff.declare

\* C12: under sequential destroy calls the first one sets closed, stops the
\* workers, shuts the backend down and releases the metrics, each once; a
\* later call does none of these and leaves the manager as it was.
C12_DestroyIdempotent ==
    [][/\ FirstDestroy =>
            /\ closed'
            /\ effects' = [effects EXCEPT !.stop = @ + 1, !.shutdown = @ + 1,
                                          !.release = @ + 1]
       /\ LaterDestroy =>
            /\ UNCHANGED <<getVars, cache_compressed, closed, blobs_check_count,
                           data_all_ready, effects, allready, gcp, dsp>>
       /\ ~overlap' =>
            /\ effects'.shutdown <= 1
            /\ effects'.release <= 1
            /\ DestroyStops(effects') <= 1
            /\ closed' = (effects'.shutdown = 1)]_vars

\* Two destroy calls were made one after the other and both have returned.
C12_Witness ==
    /\ ncalls.destroy = 2
    /\ ~overlap
    /\ closed
    /\ \A d \in Destroyers : dsp[d] = "idle"
    /\ effects.shutdown = 1 /\ effects.release = 1 /\ DestroyStops(effects) = 1

\* Callers holding entry e.
HoldersOf(m, e) == {p \in Callers : m[p].pc = "done" /\ m[p].ret = e}

\* No caller has moved since the gc call took its first lock.
GcQuiescent == gcp.snap = <<mg, ngets>>

\* C13: gc(None) removes an entry only when, at the removal under the write
\* lock, the map holds the only reference to it, so an entry some caller
\* holds is never removed; and when no caller moves during the call, every
\* entry that nobody holds is removed.
C13_GcNoneRemovesUnreferenced ==
    [][/\ (gcp.pc = "reclaim" /\ blobs' # blobs) =>
            \A b \in DOMAIN blobs \ DOMAIN blobs' :
                /\ strong_count(blobs, mg, blobs[b]) = 1
                /\ HoldersOf(mg, blobs[b]) = {}
                /\ HoldersOf(mg', blobs[b]) = {}
       /\ (gcp'.pc = "len" /\ gcp'.id = "" /\ GcQuiescent') =>
            \A b \in DOMAIN blobs' : HoldersOf(mg', blobs'[b]) # {}]_vars

\* A gc(None) call has finished its loop: it removed one entry, and left
\* another that a caller took hold of after the scan had listed it.
C13_Witness ==
    /\ gcp.pc = "len" /\ gcp.id = ""
    /\ gcp.gone # {} /\ gcp.kept # {}
    /\ \A b \in gcp.gone : b \notin DOMAIN blobs
    /\ \E b \in gcp.kept : b \in DOMAIN blobs /\ HoldersOf(mg, blobs[b]) # {}

\* C14: gc(Some(id)) removes the entry under id and no other; and the value
\* either form of gc returns is the emptiness of the map when the call looks
\* at it after its removals, which is the map the call leaves when no caller
\* moves meanwhile.
C14_GcIdAndResult ==
    [][/\ (gcp.pc = "idle" /\ gcp'.pc = "len" /\ gcp'.id # "") =>
            /\ DOMAIN blobs' = DOMAIN blobs \ {gcp'.id}
            /\ \A b \in DOMAIN blobs' : blobs'[b] = blobs[b]
       /\ (gcp.pc = "len" /\ gcp'.pc = "idle") =>
            /\ gcp'.ret = (DOMAIN blobs = {})
            /\ GcQuiescent' => gcp'.ret = (DOMAIN blobs' = {})]_vars

\* gc(Some("a")) has returned false: it removed "a" and left "b".
C14_Witness ==
    /\ gcp.pc = "idle" /\ gcp.id = "a"
    /\ "a" \in removed /\ "a" \notin DOMAIN blobs
    /\ "b" \in DOMAIN blobs
    /\ gcp.ret = FALSE

\* A check_stat call, and one that declares readiness.
CheckStep == ncalls'.check = ncalls.check + 1
Declares == effects'.declare = effects.declare + 1 /\ data_all_ready'

\* What a check_stat call that sees a not-ready entry does.
CheckResets ==
    /\ blobs_check_count' = 0
    /\ streak' = 0
    /\ effects' = effects
    /\ data_all_ready' = data_all_ready

\* C15 as stated: a check_stat call declares readiness only if it sees every
\* entry all-ready and exactly FSCACHE_BLOBS_CHECK_NUM all-ready observations
\* immediately precede it; a call that sees a not-ready entry resets the
\* count and declares nothing.
C15_DeclaresAtExactCount ==
    [][CheckStep =>
        /\ Declares =>
              all_ready(blobs, allready) /\ streak = FSCACHE_BLOBS_CHECK_NUM
        /\ ~all_ready(blobs, allready) => CheckResets]_vars

\* C15 amended: a check_stat call declares readiness exactly when it sees
\* every entry all-ready and at least FSCACHE_BLOBS_CHECK_NUM all-ready
\* observations immediately precede it, the counter being that number of
\* observations capped at FSCACHE_BLOBS_CHECK_NUM; a call that sees a
\* not-ready entry resets the counter and declares nothing.
C15_DeclaresFromCount ==
    [][/\ blobs_check_count = Min(streak, FSCACHE_BLOBS_CHECK_NUM)
       /\ CheckStep =>
            /\ Declares <=>
                  all_ready(blobs, allready) /\ streak >= FSCACHE_BLOBS_CHECK_NUM
            /\ ~all_ready(blobs, allready) => CheckResets]_vars

\* Three check_stat calls in a row saw a non-empty map all-ready: the second
\* and the third declared readiness.
C15_Witness ==
    /\ streak = 3
    /\ effects.declare = 2
    /\ data_all_ready
    /\ DOMAIN blobs # {}
    /\ blobs_check_count = FSCACHE_BLOBS_CHECK_NUM

\* The error each refused blob is refused with.
ErrorOf(b) ==
    CASE b = "v5" -> "einval"
      [] b = "nofile" -> "einval"
      [] b = "nometa" -> "enosys"
      [] OTHER -> ""

\* C16: a manager asked for with cache_compressed is refused (there is no
\* manager and no map to change); and the construction of an entry for a
\* blob with the no-external-blob-table feature, without an fscache file or
\* without valid blob meta ends the call with an error and leaves the
\* entries map as it was.
C16_ConstructionRejected ==
    [][/\ cache_compressed =>
            /\ FsCacheMgr_new(cache_compressed) = "enosys"
            /\ blobs = <<>> /\ blobs' = <<>>
       /\ DOMAIN blobs' \cap BadIds = {}
       /\ \A p \in Callers :
            (mg[p].pc = "construct" /\ mg[p].blob \in BadIds /\ mg'[p] # mg[p]) =>
                /\ mg'[p].pc = "failed"
                /\ mg'[p].err = ErrorOf(mg[p].blob)
                /\ mg'[p].ret = NoEntry
                /\ blobs' = blobs
                /\ nentries' = nentries]_vars

\* A get_blob_cache call for the blob without valid meta has failed while
\* the map holds an entry, and another for the old-format blob has failed.
C16_Witness ==
    /\ \E p, q \in Callers :
          /\ mg[p].pc = "failed" /\ mg[p].blob = "nometa" /\ mg[p].err = "enosys"
          /\ mg[q].pc = "failed" /\ mg[q].blob = "v5" /\ mg[q].err = "einval"
    /\ DOMAIN blobs # {}

\* The chunks a request asks user bytes of.
UserChunks(bios) == {bios[i].chunk : i \in {j \in 1..Len(bios) : bios[j].user_io}}

\* A read on the fresh entry that asks only for chunks that were fetched by
\* a Backend region and persisted before the reopening.
FreshRead(t) ==
    /\ hist.opened
    /\ rd[t].pc # "idle"
    /\ UserChunks(rd[t].bios) \subseteq hist.persisted

\* C17: a chunk fetched through the Backend path whose persistence task
\* succeeded is, on a fresh entry over the same cache file, classified
\* CacheFast or CacheSlow, served without a backend read, and read back with
\* the same bytes.
C17_RoundTrip ==
    \A t \in Threads :
        FreshRead(t) =>
            /\ \A i \in 1..Len(rd[t].regions) :
                  rd[t].regions[i].type = Backend =>
                      \A j \in 1..Len(rd[t].regions[i].chunks) :
                          rd[t].regions[i].chunks[j] \notin hist.persisted
            /\ rd[t].breads = <<>>
            /\ rd[t].pc = "done" =>
                  rd[t].res = "ok" /\ Flatten(rd[t].bufs) = Expected(rd[t].bios)

\* The same, for entries that store chunks uncompressed.
RoundTripUncompressed == cfg.is_compressed \/ C17_RoundTrip

\* The chunk thread t is querying the readiness of.
CurrentChunk(t) == rd[t].reqs[rd[t].ri].chunks[rd[t].ci]

\* Thread t is blocked in is_ready on an InFlight chunk.
Waiting(t) == rd[t].pc = "classify" /\ chunk_map[CurrentChunk(t)] = InFlight

\* C18: a readiness query on an InFlight chunk always answers, once the
\* chunk leaves InFlight or at the latest when the bounded wait expires (the
\* chunk is then treated as Absent), so every read call eventually returns,
\* also when two reads wait on chunks put InFlight by each other.
C18_ReadsReturn ==
    \A t \in Threads :
        /\ Waiting(t) ~> ~Waiting(t)
        /\ (rd[t].pc \in {"classify", "dispatch"}) ~> (rd[t].pc = "done")

\* The two reads wait at the same time, each on the chunk the other read's
\* call put InFlight.
C18_Witness ==
    /\ Waiting(1) /\ Waiting(2)
    /\ CurrentChunk(1) = 1 /\ CurrentChunk(2) = 0
    /\ rd[1].bios # rd[2].bios

\* The kind the stated rule gives a chunk under the entry's flags.
StatedKind(is_ready) ==
    LET fast == is_ready /\ ~cfg.is_compressed /\ ~cfg.need_validate
        slow == cfg.is_stargz \/ ~cfg.is_direct_chunkmap \/ is_ready
    IN IF fast THEN CacheFast ELSE IF slow THEN CacheSlow ELSE Backend

\* C19: read_iter classifies a chunk CacheFast iff it is ready and the entry
\* neither stores compressed nor validates; otherwise CacheSlow iff the blob
\* is stargz, the map is not direct or the chunk is ready; otherwise Backend.
\* A Backend chunk is pushed with its compress_offset and compress_size, a
\* cache kind's user chunk with its uncompress_offset and uncompress_size
\* (and a cache kind's non-user chunk is not pushed).
C19_Classification ==
    probe # <<>> /\ probe.op = "classify" =>
        LET c == probe.chunk
            kind == StatedKind(probe.is_ready)
            start == IF kind = Backend THEN compress_offset(c) ELSE uncompress_offset(c)
            len == IF kind = Backend THEN compress_size(c) ELSE uncompress_size(c)
            pushed == FileIoMergeState_push(probe.before, kind, start, len, probe.tag,
                                            kind # CacheFast, c)
        IN IF kind = Backend \/ probe.tag.user
           THEN /\ probe.ok = pushed.ok
                /\ probe.after = pushed.regions
                /\ probe.after[Len(probe.after)].type = kind
                /\ probe.ok =>
                      LET last == probe.after[Len(probe.after)]
                      IN last.blob_address + last.blob_len = start + len
           ELSE probe.ok /\ probe.after = probe.before

\* With validation on and a direct map, a ready user chunk 0 went to a
\* CacheSlow region in the uncompressed space and an Absent chunk 1 after it
\* to a Backend region in the compressed space.
C19_Witness ==
    /\ probe # <<>> /\ probe.op = "classify"
    /\ cfg.need_validate /\ cfg.is_direct_chunkmap /\ ~cfg.is_stargz
    /\ probe.chunk = 1 /\ ~probe.is_ready /\ probe.ok
    /\ Len(probe.after) = 2
    /\ probe.after[1].type = CacheSlow
    /\ probe.after[1].blob_address = uncompress_offset(0)
    /\ probe.after[1].blob_len = uncompress_size(0)
    /\ probe.after[2].type = Backend
    /\ probe.after[2].blob_address = compress_offset(1)
    /\ probe.after[2].blob_len = compress_size(1)

\* C20: a pushed range joins the trailing region iff the kinds are equal and
\* its start is the trailing region's blob_address + blob_len; in every
\* other case a new region is started and the push succeeds.
C20_PushJoinsOrStarts ==
    probe # <<>> /\ probe.op = "push" =>
        LET n == Len(probe.before)
            trail == probe.before[n]
            joins == /\ trail.type = probe.region_type
                     /\ trail.blob_address + trail.blob_len = probe.start
        IN /\ probe.ok
           /\ IF joins
              THEN /\ Len(probe.after) = n
                   /\ probe.after[n].blob_address = trail.blob_address
                   /\ probe.after[n].blob_len = trail.blob_len + probe.len
              ELSE /\ Len(probe.after) = n + 1
                   /\ probe.after[n] = trail
                   /\ probe.after[n + 1].type = probe.region_type
                   /\ probe.after[n + 1].blob_address = probe.start
                   /\ probe.after[n + 1].blob_len = probe.len

\* What the code does: a range of another kind starts a region, a range of
\* the trailing kind joins it when contiguous and is refused otherwise, the
\* list being left as it was.
PushJoinsStartsOrFails ==
    probe # <<>> /\ probe.op = "push" =>
        LET n == Len(probe.before)
            trail == probe.before[n]
            contiguous == trail.blob_address + trail.blob_len = probe.start
        IN IF trail.type # probe.region_type
           THEN /\ probe.ok
                /\ Len(probe.after) = n + 1
                /\ probe.after[n] = trail
                /\ probe.after[n + 1].blob_address = probe.start
                /\ probe.after[n + 1].blob_len = probe.len
           ELSE /\ probe.ok = contiguous
                /\ Len(probe.after) = n
                /\ ~contiguous => probe.after = probe.before

\* The classification on its own was applied to a non-user chunk that the
\* stated rule gives a cache kind.
DroppedProbe ==
    /\ probe # <<>> /\ probe.op = "classify"
    /\ ~probe.tag.user
    /\ StatedKind(probe.is_ready) # Backend

\* C21 as stated: a non-user chunk classified CacheFast or CacheSlow is added
\* to no region (so no read is made for it and none of its bytes reach the
\* user), and when it is already Ready notify_ready is not called and it
\* stays Ready.
C21_NonUserDropped ==
    DroppedProbe =>
        /\ probe.ok /\ probe.after = probe.before
        /\ probe.cm_in[probe.chunk] = Ready =>
              ~probe.notified /\ probe.cm_out[probe.chunk] = Ready

\* C21 amended: the chunk is added to no region; notify_ready is called
\* exactly when the kind is CacheSlow, whatever the chunk's state, and it
\* only releases an InFlight chunk: a Ready chunk stays Ready and no other
\* chunk changes.
C21_NonUserDroppedNotified ==
    DroppedProbe =>
        /\ probe.ok /\ probe.after = probe.before
        /\ probe.notified <=> StatedKind(probe.is_ready) = CacheSlow
        /\ probe.cm_in[probe.chunk] = Ready => probe.cm_out[probe.chunk] = Ready
        /\ ~probe.notified => probe.cm_out = probe.cm_in
        /\ \A c \in Chunks \ {probe.chunk} : probe.cm_out[c] = probe.cm_in[c]

\* A Ready non-user chunk 1 after a user chunk 0, on an entry that validates:
\* it is CacheSlow, notify_ready was called, it stays Ready and the regions
\* hold chunk 0 only.
C21_Witness ==
    /\ DroppedProbe
    /\ cfg.need_validate /\ ~cfg.is_compressed
    /\ probe.chunk = 1 /\ probe.is_ready /\ probe.notified
    /\ probe.cm_out[1] = Ready
    /\ Len(probe.after) = 1 /\ probe.after[1].chunks = <<0>>

\* Thread t's call is about to dispatch a Backend region, and takes the step.
DispatchesBackend(t) ==
    /\ rd[t].pc = "dispatch"
    /\ rd[t].regions[rd[t].gi].type = Backend
    /\ rd'[t] # rd[t]

\* The chunks of a region that are not tagged as user IO.
NonUser(g) == {g.chunks[i] : i \in {j \in 1..Len(g.chunks) : ~g.tags[j]}}

Bytes(s) == {s[i] : i \in 1..Len(s)}

\* The dispatch of Backend region g by thread t retains the non-user chunk c:
\* one backend read over the region's range, which covers c; unless that read
\* fails, a persistence task for c; and no byte of c in the user's buffers.
Retains(t, g, c) ==
    /\ rd'[t].breads = Append(rd[t].breads, <<g.blob_address, g.blob_len>>)
    /\ g.blob_address <= compress_offset(c)
    /\ compress_offset(c) + compress_size(c) <= g.blob_address + g.blob_len
    /\ rd'[t].res # "eio" =>
          \E k \in tasks' \ tasks :
              k.rid = rd[t].rid /\ k.chunk = c /\ k.buf = ChunkData(c) /\ k.wo = "none"
    /\ Bytes(Flatten(rd'[t].bufs)) \cap Bytes(ChunkData(c)) = {}

\* A persistence task whose write succeeded ends with its chunk Ready.
TaskMakesReady ==
    \A k \in tasks \ tasks' :
        (k.wo # "none" /\ persist_chunk_ok(k.buf, k.wo)) => chunk_map'[k.chunk] = Ready

\* C22 as stated: every non-user chunk of a dispatched Backend region is
\* covered by the region's one backend read, gets a persistence task (and is
\* Ready when the task's write succeeds), and none of its bytes reach the
\* user's buffers.
C22_NonUserRetained ==
    [][/\ \A t \in Threads :
            DispatchesBackend(t) =>
                \A c \in NonUser(rd[t].regions[rd[t].gi]) :
                    Retains(t, rd[t].regions[rd[t].gi], c)
       /\ TaskMakesReady]_vars

\* C22 amended: the above holds for a Backend region that holds at least one
\* user chunk; a Backend region of non-user chunks only is given up: no
\* backend read, no persistence task, no byte copied, and its chunks are
\* released with notify_ready.
C22_NonUserRetainedWithUser ==
    [][/\ \A t \in Threads :
            DispatchesBackend(t) =>
                LET g == rd[t].regions[rd[t].gi]
                IN IF has_user_io(g)
                   THEN \A c \in NonUser(g) : Retains(t, g, c)
                   ELSE /\ rd'[t].breads = rd[t].breads
                        /\ tasks' = tasks
                        /\ rd'[t].bufs = rd[t].bufs
                        /\ rd'[t].total = rd[t].total
                        /\ file' = file
                        /\ chunk_map' = NotifyAll(chunk_map, g.chunks)
       /\ TaskMakesReady]_vars

\* The first call asked for chunk 1 after a prefetch IO of chunk 0: one
\* backend read over both chunks, chunk 1's bytes alone in the buffers, and
\* chunk 0 made Ready by its persistence task.
C22_Witness ==
    /\ ~cfg.is_compressed
    /\ rd[1].pc = "done" /\ rd[1].res = "ok"
    /\ rd[1].bios = <<InternalIo(0), UserIo(1, 0, 2)>>
    /\ rd[1].breads = <<<<0, 3>>>>
    /\ Flatten(rd[1].bufs) = ChunkData(1)
    /\ rd[2].pc = "idle"
    /\ chunk_map[0] = Ready
    /\ Pread(file, uncompress_offset(0), 2) = ChunkData(0)

\* The persistence tasks spawned by a Backend dispatch and not yet ended.
BackendTasks == {k \in tasks : <<k.rid, k.chunk>> \in hist.fetched}

\* C23: every persistence task of a chunk fetched through Backend dispatch
\* writes the chunk's canonical stored bytes at its storage offset: the
\* compressed bytes, compress_size long, at compress_offset when the entry
\* stores compressed data, the uncompressed bytes, uncompress_size long, at
\* uncompress_offset otherwise; so the write stays inside the chunk's range.
C23_PersistWritesCanonical ==
    \A k \in BackendTasks :
        /\ k.offset = StoredOffset(k.chunk)
        /\ k.buf = StoredBytes(k.chunk)
        /\ Len(k.buf) = (IF cfg.is_compressed THEN compress_size(k.chunk)
                         ELSE uncompress_size(k.chunk))

\* The same for the entries that store uncompressed data.
PersistWritesCanonicalUncompressed ==
    ~cfg.is_compressed => C23_PersistWritesCanonical

\* Thread t's call is about to dispatch a CacheSlow region, and takes the step.
DispatchesSlow(t) ==
    /\ rd[t].pc = "dispatch"
    /\ rd[t].regions[rd[t].gi].type = CacheSlow
    /\ rd'[t] # rd[t]

\* The part of the i-th chunk of CacheSlow region g that the user asked for:
\* the offset inside the chunk, and the bytes accounted for before the chunk.
SlowOffset(g, i) == IF i = 1 THEN g.seg.offset ELSE 0

RECURSIVE SlowBefore(_, _)
SlowBefore(g, i) ==
    IF i = 1 THEN 0
    ELSE LET b == SlowBefore(g, i - 1)
         IN b + Min(uncompress_size(g.chunks[i - 1]) - SlowOffset(g, i - 1), g.seg.len - b)

SlowSize(g, i) ==
    Min(uncompress_size(g.chunks[i]) - SlowOffset(g, i), g.seg.len - SlowBefore(g, i))

\* read_single_chunk tries the cache file for chunk c and the read fails.
CacheReadFails(c) ==
    /\ cfg.is_stargz \/ ~cfg.is_direct_chunkmap \/ chunk_map[c] = Ready
    /\ ~read_file_cache(file, c).ok

\* The chunk was handed to persistence in this step: a task for it on an
\* entry that stores uncompressed data, otherwise the caller's own write of
\* the compressed bytes, which makes the chunk Ready or is logged as failed.
PersistedAgain(t, c) ==
    IF ~cfg.is_compressed
    THEN \E k \in tasks' \ tasks :
            /\ k.rid = rd[t].rid /\ k.chunk = c /\ k.wo = "none"
            /\ k.buf = ChunkData(c) /\ k.offset = uncompress_offset(c)
    ELSE \/ /\ chunk_map'[c] = Ready
            /\ Pread(file', compress_offset(c), compress_size(c)) = RawChunk(c)
         \/ c \in errlog'

\* C24: when the dispatch of a CacheSlow region finds that the cache-file
\* read of one of its chunks fails, the chunk is fetched from the backend
\* with one read of its compressed range; when the call goes on (the fetch
\* succeeded) the user's buffers hold the chunk's requested bytes and the
\* chunk is persisted again.
C24_SlowFallsBack ==
    [][\A t \in Threads :
          DispatchesSlow(t) =>
              LET g == rd[t].regions[rd[t].gi]
                  Refetched(c) ==
                      \E p \in 1..Len(rd'[t].breads) :
                          /\ p > Len(rd[t].breads)
                          /\ rd'[t].breads[p] = <<compress_offset(c), compress_size(c)>>
              IN \A i \in 1..Len(g.chunks) :
                    CacheReadFails(g.chunks[i]) =>
                       /\ (\A j \in 1..(i - 1) : ~CacheReadFails(g.chunks[j]))
                             => Refetched(g.chunks[i])
                       /\ rd'[t].res \in {"none", "ok"} =>
                             /\ Refetched(g.chunks[i])
                             /\ Slice(Flatten(rd'[t].bufs),
                                      rd[t].total + SlowBefore(g, i), SlowSize(g, i))
                                  = Slice(ChunkData(g.chunks[i]), SlowOffset(g, i),
                                          SlowSize(g, i))
                             /\ PersistedAgain(t, g.chunks[i])]_vars

\* On a digest-keyed map that validates, the first call read the compressed
\* chunk 0: the empty cache file failed the read, one backend read followed,
\* the user has the chunk and its persistence task is pending.
C24_Witness ==
    /\ ~cfg.is_direct_chunkmap /\ cfg.need_validate /\ ~cfg.is_compressed
    /\ rd[1].pc = "done" /\ rd[1].res = "ok"
    /\ rd[1].bios = <<UserIo(0, 0, 2)>>
    /\ rd[1].breads = <<<<0, 1>>>>
    /\ Flatten(rd[1].bufs) = ChunkData(0)
    /\ \E k \in tasks : k.rid = rd[1].rid /\ k.chunk = 0 /\ k.buf = ChunkData(0)

\* read_single_chunk on its own was applied.
SingleProbe == probe # <<>> /\ probe.op = "single"

\* The stated condition for trying the cache file first.
StatedTry ==
    cfg.is_stargz \/ ~cfg.is_direct_chunkmap \/ probe.cm_in[probe.chunk] = Ready

\* C25: read_single_chunk serves the chunk from the cache file, with no
\* backend read, exactly when the cache file is tried (stargz, or a map that
\* is not direct, or a Ready chunk) and its read, decompression and
\* validation succeed; the chunk is then marked Ready, the user gets the
\* bytes read, and nothing is persisted.  In every other case one backend
\* read of the chunk is issued.
C25_TryCacheFirst ==
    SingleProbe =>
        /\ probe.breads = <<>> <=> (StatedTry /\ probe.cached.ok)
        /\ probe.breads # <<>> =>
              probe.breads = <<<<compress_offset(probe.chunk), compress_size(probe.chunk)>>>>
        /\ (StatedTry /\ probe.cached.ok) =>
              /\ probe.err = ""
              /\ probe.cm_out[probe.chunk] = Ready
              /\ \A c \in Chunks \ {probe.chunk} : probe.cm_out[c] = probe.cm_in[c]
              /\ Flatten(probe.bufs) = probe.cached.data
              /\ probe.tasks = {} /\ probe.file_out = probe.file_in

\* A digest-keyed map that lost the chunk: chunk 0 is Absent, the cache file
\* holds it and validation passes; it is served from the file and made Ready.
C25_Witness ==
    /\ SingleProbe
    /\ ~cfg.is_direct_chunkmap /\ ~cfg.is_stargz /\ cfg.need_validate /\ ~cfg.is_compressed
    /\ probe.chunk = 0 /\ probe.cm_in[0] = Absent
    /\ probe.cached.ok /\ probe.breads = <<>>
    /\ probe.cm_out[0] = Ready
    /\ Flatten(probe.bufs) = ChunkData(0)

RECURSIVE SumCompressSize(_)
SumCompressSize(cs) ==
    IF cs = <<>> THEN 0 ELSE compress_size(Head(cs)) + SumCompressSize(Tail(cs))

\* C26: the dispatch of a Backend region that holds user IO issues exactly
\* one backend read, for the range that starts at the region's blob_address
\* and is blob_len long, blob_len being the sum of the compressed sizes of
\* the region's chunks; and each chunk is the piece of that range at offset
\* compress_offset - blob_address: that piece, decompressed when the chunk
\* is compressed, is what the chunk's persistence task is given.
C26_OneReadPerBackendRegion ==
    [][\A t \in Threads :
          (DispatchesBackend(t) /\ has_user_io(rd[t].regions[rd[t].gi])) =>
              LET g == rd[t].regions[rd[t].gi]
                  range == Slice(BlobBytes, g.blob_address, g.blob_len)
                  piece(c) == Slice(range, compress_offset(c) - g.blob_address,
                                    compress_size(c))
              IN /\ Len(g.chunks) > 0
                 /\ g.blob_address = compress_offset(g.chunks[1])
                 /\ g.blob_len = SumCompressSize(g.chunks)
                 /\ rd'[t].breads = Append(rd[t].breads, <<g.blob_address, g.blob_len>>)
                 /\ rd'[t].res # "eio" =>
                       \A i \in 1..Len(g.chunks) :
                           \E k \in tasks' \ tasks :
                               /\ k.rid = rd[t].rid /\ k.chunk = g.chunks[i]
                               /\ k.buf = IF is_compressed(g.chunks[i])
                                          THEN Decompress(piece(g.chunks[i]))
                                          ELSE piece(g.chunks[i])
                               /\ k.buf = ChunkData(g.chunks[i])]_vars

\* The first call read the end of chunk 0 and the start of chunk 1, both
\* Absent: one Backend region, one backend read of the three bytes of both
\* chunks, and the user has one byte of each.
C26_Witness ==
    /\ rd[1].pc = "done" /\ rd[1].res = "ok"
    /\ rd[1].bios = <<UserIo(0, 1, 1), UserIo(1, 0, 1)>>
    /\ rd[1].breads = <<<<0, 3>>>>
    /\ Flatten(rd[1].bufs) = <<ChunkData(0)[2], ChunkData(1)[1]>>
    /\ \A c \in Chunks : \E k \in tasks : k.rid = rd[1].rid /\ k.chunk = c

\* The merging on its own was applied.
MergeProbe == probe # <<>> /\ probe.op = "merge"

RECURSIVE RequestChunks(_)
RequestChunks(reqs) ==
    IF reqs = <<>> THEN <<>> ELSE Head(reqs).chunks \o RequestChunks(Tail(reqs))

RECURSIVE RequestTags(_)
RequestTags(reqs) ==
    IF reqs = <<>> THEN <<>> ELSE Head(reqs).tags \o RequestTags(Tail(reqs))

ChunkEnd(c) == compress_offset(c) + compress_size(c)

\* C27: step-1 merging cuts the descriptor list, order kept, into requests.
\* Inside a request every chunk starts where the chunk before it ends, and
\* blob_offset and blob_size are the start of the first chunk and the sum of
\* the compressed sizes, which is at most merging_size.  The runs are
\* maximal: a request ends only where the next chunk does not start at the
\* request's end (a gap of one byte is enough) or would take it over
\* merging_size.
C27_ContiguityMerge ==
    MergeProbe =>
        LET reqs == probe.reqs
        IN /\ RequestChunks(reqs) = [i \in 1..Len(probe.bios) |-> probe.bios[i].chunk]
           /\ RequestTags(reqs) = [i \in 1..Len(probe.bios) |-> TagOf(probe.bios[i])]
           /\ \A k \in 1..Len(reqs) :
                 /\ Len(reqs[k].chunks) > 0
                 /\ Len(reqs[k].tags) = Len(reqs[k].chunks)
                 /\ reqs[k].blob_offset = compress_offset(reqs[k].chunks[1])
                 /\ reqs[k].blob_size = SumCompressSize(reqs[k].chunks)
                 /\ reqs[k].blob_size <= probe.merging_size
                 /\ \A j \in 2..Len(reqs[k].chunks) :
                       compress_offset(reqs[k].chunks[j]) = ChunkEnd(reqs[k].chunks[j - 1])
           /\ \A k \in 1..(Len(reqs) - 1) :
                 \/ compress_offset(reqs[k + 1].chunks[1])
                       # reqs[k].blob_offset + reqs[k].blob_size
                 \/ reqs[k].blob_size + compress_size(reqs[k + 1].chunks[1])
                       > probe.merging_size

\* Chunks 1, 2 and 3 in order under the default merging size: chunks 1 and 2
\* form one request of 3 bytes, and the one-byte gap before chunk 3 starts a
\* second request.
C27_Witness ==
    /\ MergeProbe
    /\ probe.merging_size = MergingSize
    /\ probe.bios = <<UserIo(1, 0, 2), UserIo(2, 0, 2), UserIo(3, 0, 2)>>
    /\ Len(probe.reqs) = 2
    /\ probe.reqs[1].chunks = <<1, 2>> /\ probe.reqs[1].blob_size = 3
    /\ probe.reqs[2].chunks = <<3>> /\ probe.reqs[2].blob_offset = 5
    /\ ChunkEnd(2) + 1 = compress_offset(3)

\* The classification of a whole request on its own was applied.
KindsProbe == probe # <<>> /\ probe.op = "kinds"

\* The positions of the Backend regions in a region list.
BackendAt(regions) == {i \in 1..Len(regions) : regions[i].type = Backend}

\* C28: whatever kinds the chunks of one merged request get, the Backend
\* regions built for it cover ranges of the compressed address space that
\* are not empty, do not overlap and increase in list order; each range is
\* the one of the region's chunks.
C28_BackendRegionsIncrease ==
    KindsProbe =>
        LET rs == probe.regions
        IN /\ \A i \in BackendAt(rs) :
                 /\ rs[i].blob_len > 0
                 /\ rs[i].blob_address = compress_offset(rs[i].chunks[1])
                 /\ rs[i].blob_len = SumCompressSize(rs[i].chunks)
           /\ \A i, j \in BackendAt(rs) :
                 i < j => rs[i].blob_address + rs[i].blob_len <= rs[j].blob_address

\* Chunks 0 and 2 are fetched and chunk 1, which is Ready on an entry that
\* validates, is read from the cache between them: two Backend regions,
\* [0, 1) and [3, 4).
C28_Witness ==
    /\ KindsProbe /\ probe.ok
    /\ probe.bios = <<UserIo(0, 0, 2), UserIo(1, 0, 2), UserIo(2, 0, 2)>>
    /\ Len(probe.regions) = 3
    /\ probe.regions[1].type = Backend /\ probe.regions[2].type = CacheSlow
    /\ probe.regions[3].type = Backend
    /\ probe.regions[1].blob_address = 0 /\ probe.regions[1].blob_len = 1
    /\ probe.regions[3].blob_address = 3 /\ probe.regions[3].blob_len = 1

\* The cursor's position counted in bytes from the start of the buffers.
FlatPos(bufs, cur) == SumLen(SubSeq(bufs, 1, cur.index)) + cur.offset

\* Thread t's dispatch step went well: the call goes on or returns Ok.
DispatchedOk(t) ==
    /\ rd[t].pc = "dispatch"
    /\ rd'[t] # rd[t]
    /\ rd'[t].res \in {"none", "ok"}

\* C29: inside one read call the requests are taken in list order, and the
\* regions of a request are dispatched in list order; the region list is
\* empty when a request begins.  A dispatch writes only at the cursor: the
\* bytes before the running total and the bytes after the new total are
\* left alone, the total grows by the bytes the dispatch accounts for, and
\* the cursor stands at the running total, which is what Ok returns.
C29_DispatchInOrder ==
    [][\A t \in Threads :
          /\ DispatchedOk(t) =>
                LET r == rd[t]
                    q == rd'[t]
                    old == Flatten(r.bufs)
                    new == Flatten(q.bufs)
                IN /\ FlatPos(r.bufs, r.cursor) = r.total
                   /\ FlatPos(q.bufs, q.cursor) = q.total
                   /\ q.total >= r.total
                   /\ Len(new) = Len(old)
                   /\ \A p \in 1..Len(old) :
                         (p <= r.total \/ p > q.total) => new[p] = old[p]
                   /\ \/ /\ r.gi < Len(r.regions)
                         /\ q.pc = "dispatch" /\ q.gi = r.gi + 1
                         /\ q.ri = r.ri /\ q.regions = r.regions
                      \/ /\ r.gi = Len(r.regions) /\ r.ri < Len(r.reqs)
                         /\ q.pc = "classify" /\ q.ri = r.ri + 1 /\ q.ci = 1
                         /\ q.regions = <<>>
                      \/ /\ r.gi = Len(r.regions) /\ r.ri = Len(r.reqs)
                         /\ q.pc = "done" /\ q.res = "ok"
          /\ (rd[t].pc = "classify" /\ rd'[t].pc = "classify" /\ rd'[t] # rd[t]) =>
                \/ rd'[t].ri = rd[t].ri /\ rd'[t].ci = rd[t].ci + 1
                \/ /\ rd'[t].ri = rd[t].ri + 1 /\ rd'[t].ci = 1
                   /\ rd[t].regions = <<>> /\ rd'[t].regions = <<>>
          /\ (rd[t].pc = "classify" /\ rd'[t].pc = "dispatch") =>
                rd'[t].gi = 1 /\ rd'[t].ri = rd[t].ri]_vars

\* The first call asked for the end of chunk 1 and then the start of chunk
\* 0, two requests: two backend reads in that order, and the two bytes in
\* the buffers in that order, the cursor at 2.
C29_Witness ==
    /\ rd[1].pc = "done" /\ rd[1].res = "ok"
    /\ rd[1].bios = <<UserIo(1, 1, 1), UserIo(0, 0, 1)>>
    /\ rd[1].breads = <<<<1, 2>>, <<0, 1>>>>
    /\ rd[1].total = 2
    /\ FlatPos(rd[1].bufs, rd[1].cursor) = 2
    /\ Flatten(rd[1].bufs) = <<ChunkData(1)[2], ChunkData(0)[1]>>

\* Region::append on its own was applied, and the second append did not
\* start at the end of the open region.
GapAppendProbe ==
    /\ probe # <<>> /\ probe.op = "append"
    /\ probe.opened.status = "Open"
    /\ probe.start # probe.opened.blob_address + probe.opened.blob_len

\* C30: an append to an Open region at a start other than blob_address +
\* blob_len fails with NotContinuous and leaves every field of the region
\* as it was (status, blob_address, blob_len, count, seg, chunks, tags); an
\* append at the region's end made after it succeeds and gives the region
\* that the same append gives without the failed one.
C30_FailedAppendLeavesRegion ==
    GapAppendProbe =>
        /\ ~probe.second.ok
        /\ probe.second.r = probe.opened
        /\ probe.third.ok
        /\ probe.third = probe.direct
        /\ probe.third.r.blob_len > probe.opened.blob_len
        /\ probe.third.r.count = probe.opened.count + 1

\* A CacheSlow region opened at [1, 3) with a user segment: an append at 4
\* fails and changes nothing, the append at 3 then extends the region to
\* [1, 5) with two chunks.
C30_Witness ==
    /\ GapAppendProbe
    /\ probe.opened.type = CacheSlow
    /\ probe.opened.blob_address = 1 /\ probe.opened.blob_len = 2
    /\ probe.opened.seg = [offset |-> 1, len |-> 2]
    /\ probe.start = 4
    /\ ~probe.second.ok /\ probe.second.r = probe.opened
    /\ probe.third.ok
    /\ probe.third.r.blob_address = 1 /\ probe.third.r.blob_len = 4
    /\ probe.third.r.chunks = <<0, 1>> /\ probe.third.r.count = 2

\* Region::append was applied to a new region for a sequence of items, and
\* every append succeeded.
AppendsProbe == probe # <<>> /\ probe.op = "appends" /\ probe.res.ok

IsUserItem(it) == it.tag.user

RECURSIVE SumItemLen(_)
SumItemLen(items) ==
    IF items = <<>> THEN 0 ELSE Head(items).len + SumItemLen(Tail(items))

RECURSIVE SumTagLen(_)
SumTagLen(items) ==
    IF items = <<>> THEN 0 ELSE Head(items).tag.len + SumTagLen(Tail(items))

CopyvProbe == probe # <<>> /\ probe.op = "copyv"

\* The arguments fail copyv's validation.
CopyvInvalid ==
    /\ probe.src # <<>> /\ probe.length > 0
    /\ \/ probe.offset > Len(probe.src[1])
       \/ probe.dst_index >= Len(probe.dst)
       \/ probe.dst_offset > Len(probe.dst[probe.dst_index + 1])

\* C32: copyv with a non-empty source and a length above 0 whose offset
\* lies behind the first source buffer, or whose destination cursor is out
\* of bounds, returns MemOverflow and leaves the destination as it was;
\* with an empty source or length 0 it returns 0 bytes and the cursor it
\* was given.
C32_CopyvRejects ==
    CopyvProbe =>
        /\ CopyvInvalid => probe.res.err /\ probe.res.dst = probe.dst
        /\ (probe.src = <<>> \/ probe.length = 0) =>
              /\ ~probe.res.err /\ probe.res.n = 0
              /\ probe.res.index = probe.dst_index
              /\ probe.res.offset = probe.dst_offset
              /\ probe.res.dst = probe.dst

\* An offset of 3 into a first source buffer of 2 bytes is refused.
C32_Witness ==
    /\ CopyvProbe
    /\ probe.src = <<<<1, 2>>, <<3>>>> /\ probe.offset = 3 /\ probe.length = 1
    /\ probe.dst = <<<<0, 0>>, <<0>>>>
    /\ probe.dst_index = 0 /\ probe.dst_offset = 0
    /\ probe.res.err /\ probe.res.dst = probe.dst

\* The source bytes from offset on, and the bytes of the first j - 1 source
\* buffers among them.
SrcAfter == SubSeq(Flatten(probe.src), probe.offset + 1, Len(Flatten(probe.src)))
BytesBefore(j) == Max(0, SumLen(SubSeq(probe.src, 1, j - 1)) - probe.offset)

\* The bytes copyv is asked for, the destination cursor counted in bytes,
\* and the room behind it.
CopyWanted == Min(probe.length, Len(SrcAfter))
CopyPos == FlatPos(probe.dst, [index |-> probe.dst_index, offset |-> probe.dst_offset])
CopyRoom == SumLen(probe.dst) - CopyPos

\* copyv was applied to arguments that pass its validation, on a
\* destination with room for the bytes asked for.
CopyvFits ==
    /\ CopyvProbe
    /\ probe.src # <<>> /\ probe.length > 0
    /\ ~CopyvInvalid
    /\ CopyRoom >= CopyWanted

\* The result is Ok with the wanted bytes at the cursor, in order, nothing
\* else changed, and the cursor just behind them.
CopiedAsWanted ==
    /\ ~probe.res.err
    /\ probe.res.n = CopyWanted
    /\ Flatten(probe.res.dst) =
          [i \in 1..SumLen(probe.dst) |->
              IF i > CopyPos /\ i <= CopyPos + CopyWanted THEN SrcAfter[i - CopyPos]
              ELSE Flatten(probe.dst)[i]]
    /\ FlatPos(probe.dst, [index |-> probe.res.index, offset |-> probe.res.offset])
          = CopyPos + CopyWanted
    /\ CopyWanted > 0 =>
          \/ probe.res.index = Len(probe.dst) /\ probe.res.offset = 0
          \/ /\ probe.res.index < Len(probe.dst)
             /\ probe.res.offset < Len(probe.dst[probe.res.index + 1])

FullBeforeBuffer ==
    \E j \in 2..Len(probe.src) : Min(probe.length, BytesBefore(j)) = CopyRoom

\* What copyv does: the copy is as wanted unless the destination is full
\* when the loop turns to another source buffer, and then the call fails.
CopyvCopiesUnlessFull ==
    CopyvFits => IF FullBeforeBuffer THEN probe.res.err ELSE CopiedAsWanted

\* One byte is wanted from two source buffers and the destination holds one
\* byte: the byte is written and the call fails.
CopyvFullWitness ==
    /\ CopyvFits /\ FullBeforeBuffer
    /\ probe.src = <<<<1>>, <<2, 3>>>> /\ probe.offset = 0 /\ probe.length = 1
    /\ probe.dst = <<<<0>>>> /\ probe.dst_index = 0 /\ probe.dst_offset = 0
    /\ probe.res.err /\ probe.res.dst = <<<<1>>>>

\* A cursor was made, and a call was made on it.
CursorProbe == probe # <<>> /\ probe.op = "cursor"
CursorCalled == CursorProbe /\ probe.last # <<>>

\* The iovecs lie one behind the other from position cur on, each inside
\* one slice.
RECURSIVE VecsFrom(_, _, _)
VecsFrom(bufs, vecs, cur) ==
    IF vecs = <<>> THEN TRUE
    ELSE LET v == Head(vecs)
         IN /\ v.idx = cur.index /\ v.off = cur.offset
            /\ v.idx < Len(bufs) /\ v.off + v.n <= Len(bufs[v.idx + 1])
            /\ (Tail(vecs) # <<>>) => v.off + v.n = Len(bufs[v.idx + 1])
            /\ VecsFrom(bufs, Tail(vecs), [index |-> v.idx + 1, offset |-> 0])

\* What consume and move_cursor have in common: consume ends where
\* move_cursor does, its iovecs cover min(size, remaining) bytes from the old
\* position without crossing a slice boundary, the index stays within the
\* list, and both do nothing at the end of the list or for size 0.
CursorAgrees ==
    /\ CursorProbe => probe.cur.index <= Len(probe.bufs)
    /\ CursorCalled =>
          LET l == probe.last
              left == SumLen(probe.bufs) - FlatPos(probe.bufs, l.before)
          IN /\ probe.cur = move_cursor(probe.bufs, l.before, l.size)
             /\ l.kind = "consume" =>
                   /\ VecsLen(l.vecs) = Min(l.size, left)
                   /\ VecsFrom(probe.bufs, l.vecs, l.before)
             /\ FlatPos(probe.bufs, probe.cur) =
                   FlatPos(probe.bufs, l.before) + Min(l.size, left)
             /\ (l.size = 0 \/ l.before.index = Len(probe.bufs)) =>
                   probe.cur = l.before /\ l.vecs = <<>>

\* The offset lies inside the current slice, and is 0 at the end.
OffsetInSlice ==
    IF probe.cur.index = Len(probe.bufs) THEN probe.cur.offset = 0
    ELSE probe.cur.offset < Len(probe.bufs[probe.cur.index + 1])

\* The same, a cursor at the start of an empty slice apart.
OffsetInSliceOrEmpty ==
    \/ OffsetInSlice
    \/ /\ probe.cur.index < Len(probe.bufs)
       /\ probe.bufs[probe.cur.index + 1] = <<>> /\ probe.cur.offset = 0

\* C34 as stated: for any list of slices and any sequence of sizes, consume
\* leaves the cursor where move_cursor would, the iovecs cover min(n,
\* remaining) bytes from the old position without crossing a slice boundary,
\* index never exceeds the number of slices, offset is always smaller than
\* the current slice's length (0 at the end), and both calls do nothing at
\* the end or for n = 0.
C34_CursorAgreesInSlice == CursorAgrees /\ (CursorProbe => OffsetInSlice)

\* C34, amended: the same, with the offset smaller than the current slice's
\* length unless the cursor stands at the start of an empty slice.
C34_CursorAgreesInSliceOrEmpty == CursorAgrees /\ (CursorProbe => OffsetInSliceOrEmpty)

\* On two slices of two bytes, after a call that left the cursor at (0, 1),
\* consume(2) returned two iovecs of one byte and left the cursor at (1, 1).
C34_Witness ==
    /\ CursorCalled
    /\ probe.bufs = <<<<0, 0>>, <<0, 0>>>>
    /\ probe.last.kind = "consume" /\ probe.last.size = 2
    /\ probe.last.before = [index |-> 0, offset |-> 1]
    /\ probe.last.vecs = <<[idx |-> 0, off |-> 1, n |-> 1], [idx |-> 1, off |-> 0, n |-> 1]>>
    /\ probe.cur = [index |-> 1, offset |-> 1]

\* No call is inside read_iter and no persistence task is left.
Quiet == tasks = {} /\ \A t \in Threads : rd[t].pc \in {"idle", "done"}

\* The calls made so far, one per thread at most.
DoneCalls == {t \in Threads : rd[t].pc = "done"}

\* Every call made so far has returned an error.
OnlyFailedCalls ==
    /\ nreads > 0 /\ nreads = Cardinality(DoneCalls)
    /\ \A t \in DoneCalls : rd[t].res # "ok"

\* Every call made so far has returned Ok.
OnlyOkCalls ==
    /\ nreads > 0 /\ nreads = Cardinality(DoneCalls)
    /\ \A t \in DoneCalls : rd[t].res = "ok"

\* C35: when a read call returns an error, the chunks it moved to InFlight
\* are released: once the failed calls have returned and the tasks they
\* spawned have finished, no chunk is InFlight.
C35_ErrorReleasesChunks ==
    (Quiet /\ OnlyFailedCalls) => \A c \in Chunks : chunk_map[c] # InFlight

\* The same for the calls that return Ok.
OkReleasesChunks ==
    (Quiet /\ OnlyOkCalls) => \A c \in Chunks : chunk_map[c] # InFlight

\* One call for chunk 0 has failed on its backend read and nothing runs:
\* chunk 0 is InFlight.
ErrorLeavesInFlight ==
    /\ Quiet /\ nreads = 1
    /\ rd[1].pc = "done" /\ rd[1].res = "eio" /\ rd[1].failed = Backend
    /\ rd[1].bios = <<UserIo(0, 0, 2)>>
    /\ chunk_map[0] = InFlight

\* C36: Ready is absorbing within an entry's lifetime: no step (a
\* notify_ready by a failed persistence task or for a dropped prefetch IO, a
\* second set_ready, a concurrent read) takes a Ready chunk back to Absent
\* or InFlight; a set_ready on a Ready chunk changes nothing.
C36_ReadyIsAbsorbing ==
    [][\A c \in Chunks : chunk_map[c] = Ready => chunk_map'[c] = Ready]_vars

\* A call on a validating entry with an indexed map has classified the
\* prefetch IO for chunk 1 behind a user IO for chunk 0 and kept no region
\* for it: the chunk was Ready, notify_ready was called for it, and it is
\* Ready.
C36_Witness ==
    \E t \in Threads :
        /\ cfg.is_direct_chunkmap /\ cfg.need_validate
        /\ rd[t].pc = "dispatch"
        /\ rd[t].bios = <<UserIo(0, 0, 2), InternalIo(1)>>
        /\ Len(rd[t].reqs) = 1 /\ rd[t].reqs[1].chunks = <<0, 1>>
        /\ \A i \in 1..Len(rd[t].regions) : ~InRegion(1, rd[t].regions[i])
        /\ chunk_map[1] = Ready

\* C37: the dispatch of a Backend region without user IO (an empty seg)
\* issues no backend read, spawns no persistence task, writes nothing to
\* the user's buffers and returns 0 (the call goes on with the same total);
\* all it does is notify_ready for each of its chunks: those that are
\* InFlight become Absent, and no other chunk changes.
C37_PrefetchOnlyRegionGivenUp ==
    [][\A t \in Threads :
          (DispatchesBackend(t) /\ seg_is_empty(rd[t].regions[rd[t].gi].seg)) =>
              LET g == rd[t].regions[rd[t].gi]
              IN /\ rd'[t].breads = rd[t].breads
                 /\ tasks' = tasks
                 /\ file' = file /\ errlog' = errlog
                 /\ rd'[t].bufs = rd[t].bufs /\ rd'[t].cursor = rd[t].cursor
                 /\ rd'[t].total = rd[t].total
                 /\ rd'[t].res \in {"none", "ok"}
                 /\ Len(g.chunks) > 0
                 /\ \A c \in Chunks :
                       chunk_map'[c] = IF InRegion(c, g) /\ chunk_map[c] = InFlight
                                       THEN Absent ELSE chunk_map[c]]_vars

\* A call has dispatched a Backend region that holds the prefetched chunk 0
\* alone and is at its second region: no backend read, no task, and chunk 0
\* is Absent again.
C37_Witness ==
    \E t \in Threads :
        /\ rd[t].pc = "dispatch" /\ rd[t].gi = 2
        /\ rd[t].regions[1].type = Backend /\ seg_is_empty(rd[t].regions[1].seg)
        /\ rd[t].regions[1].chunks = <<0>>
        /\ rd[t].breads = <<>> /\ rd[t].total = 0
        /\ tasks = {}
        /\ chunk_map[0] = Absent


\* C38: however check_stat calls interleave, blobs_check_count never exceeds
\* FSCACHE_BLOBS_CHECK_NUM (so a later call that finds the entries all-ready
\* still meets the count it declares at).
C38_CountNeverExceedsCheckNum == blobs_check_count <= FSCACHE_BLOBS_CHECK_NUM

\* Two check_stat calls have both added to the counter and a third call,
\* which saw every entry all-ready, is about to add instead of declaring.
CountPastCheckNum ==
    /\ blobs_check_count > FSCACHE_BLOBS_CHECK_NUM
    /\ DOMAIN blobs # {}
    /\ all_ready(blobs, allready)
    /\ ~data_all_ready
    /\ ncalls.check = MaxChecks
    /\ \E c \in Checkers : chk[c] = "add"


\* C39: however destroy calls on one manager state interleave, the workers
\* are stopped by destroy at most once, the backend is shut down at most
\* once and the metrics are released at most once.
C39_TeardownAtMostOnce ==
    /\ DestroyStops(effects) <= 1
    /\ effects.shutdown <= 1
    /\ effects.release <= 1

\* Two destroy calls overlapped and both have returned: each of them ran the
\* teardown.
TeardownTwice ==
    /\ overlap
    /\ \A d \in Destroyers : dsp[d] = "idle"
    /\ DestroyStops(effects) = 2 /\ effects.shutdown = 2 /\ effects.release = 2

\* The teardown ran at most once unless two destroy calls overlapped.
TeardownOnceUnlessOverlap == ~overlap => C39_TeardownAtMostOnce


\* C40: in every state, if metrics.data_all_ready is true then the manager
\* holds at least one entry and every entry it holds answers true to
\* is_all_data_ready().
C40_DeclaredMeansAllReady ==
    data_all_ready => (DOMAIN blobs # {} /\ all_ready(blobs, allready))

\* Readiness was declared for an empty manager.
DeclaredOnEmpty ==
    /\ data_all_ready
    /\ effects.declare = 1
    /\ nentries = 0 /\ DOMAIN blobs = {}

\* Readiness was declared and an entry created since is not all-ready.
DeclaredThenNotReady ==
    /\ data_all_ready
    /\ \E b \in DOMAIN blobs : blobs[b] \notin allready

\* A declaration is made by a call whose walk over the entries found every
\* one of them all-ready, the map not having changed since; data_all_ready
\* is never taken back.
DeclaredWhenObservedReady ==
    [][/\ data_all_ready => data_all_ready'
       /\ (~data_all_ready /\ data_all_ready') =>
             /\ all_ready(blobs, allready)
             /\ \E c \in Checkers : chk[c] = "declare" /\ chk'[c] = "idle"]_vars

====
